---- MODULE Spec2Model ----
(***************************************************************************)
(* Model of the InSAR pipeline orchestrator (InSARProcessor) and of the    *)
(* task service wrapped around it (insar_service).                         *)
(*                                                                         *)
(* Four specifications share the processor's step machine:                 *)
(*   Spec     a client thread drives one processor through its public API  *)
(*            (run(steps), the ten step methods) while a second thread     *)
(*            may call cancel() at any moment;                             *)
(*   SvcSpec  the service: start_processing spawns the worker thread that  *)
(*            executes run_processing_task, the request handler            *)
(*            cancel_task interleaves with it;                             *)
(*   ObsSpec  one run() while observers, some of which raise, register     *)
(*            through on_progress / on_log at any moment;                  *)
(*   PollSpec one run() while another thread calls get_status().           *)
(*                                                                         *)
(* Granularity: a step method is three atomic steps of its thread          *)
(* (_start_step; _check_cancelled; the computation up to _complete_step or *)
(* _fail_step and the return or re-raise), run() adds its boundary check.  *)
(* Time stamps are abstracted to set / not set, exception messages to      *)
(* three values.  Of the log stream the model keeps the line each progress *)
(* report writes and the line of cancel(); the notifications are recorded  *)
(* per step execution (the record starts anew at every _start_step and at  *)
(* every call of the client of Spec).                                      *)
(***************************************************************************)
EXTENDS Integers, Sequences, FiniteSets, TLC

(* ------------------------------------------------------------------ *)
(* Bounds of the model                                                *)
(* ------------------------------------------------------------------ *)
\* number of API calls (run / step method) the client of Spec makes
MaxCalls == 2
\* number of cancel() / cancel_task requests issued
MaxCancels == 2
\* number of callbacks registered with on_progress and on_log together
MaxObservers == 2

(* ------------------------------------------------------------------ *)
(* ProcessingStep, ProcessingStatus                                   *)
(* ------------------------------------------------------------------ *)
DOWNLOAD_DATA == "download_data"
DOWNLOAD_DEM == "download_dem"
DOWNLOAD_LANDMASK == "download_landmask"
INITIALIZE_STACK == "initialize_stack"
COMPUTE_ALIGNMENT == "compute_alignment"
COMPUTE_GEOCODING == "compute_geocoding"
COMPUTE_INTERFEROGRAM == "compute_interferogram"
PHASE_UNWRAPPING == "phase_unwrapping"
COMPUTE_DISPLACEMENT == "compute_displacement"
GENERATE_VISUALIZATIONS == "generate_visualizations"

\* the enumeration, in declaration order
ProcessingStep ==
    << DOWNLOAD_DATA, DOWNLOAD_DEM, DOWNLOAD_LANDMASK, INITIALIZE_STACK,
       COMPUTE_ALIGNMENT, COMPUTE_GEOCODING, COMPUTE_INTERFEROGRAM,
       PHASE_UNWRAPPING, COMPUTE_DISPLACEMENT, GENERATE_VISUALIZATIONS >>

Steps == { ProcessingStep[i] : i \in 1..Len(ProcessingStep) }

PENDING == "pending"
RUNNING == "running"
COMPLETED == "completed"
FAILED == "failed"
CANCELLED == "cancelled"

ProcessingStatus == { PENDING, RUNNING, COMPLETED, FAILED, CANCELLED }

Terminal == { COMPLETED, FAILED, CANCELLED }

\* run(): the step list used when steps is None
DefaultSteps ==
    << DOWNLOAD_DATA, DOWNLOAD_DEM, DOWNLOAD_LANDMASK, INITIALIZE_STACK,
       COMPUTE_ALIGNMENT, COMPUTE_GEOCODING, COMPUTE_INTERFEROGRAM,
       PHASE_UNWRAPPING, COMPUTE_DISPLACEMENT, GENERATE_VISUALIZATIONS >>

\* the explicit step lists the client of Spec passes to run(steps)
RunLists ==
    { << INITIALIZE_STACK, COMPUTE_ALIGNMENT >>,
      << GENERATE_VISUALIZATIONS, DOWNLOAD_DEM >>,
      << >> }

\* run(steps=None): the argument is None
NoArg == [given |-> FALSE, steps |-> << >>]

\* the arguments the client of Spec passes to run()
RunArgs == { NoArg } \cup { [given |-> TRUE, steps |-> l] : l \in RunLists }

\* variant: `if not steps:` in place of `if steps is None:`
ResolveSteps_EmptyIsDefault(arg) ==
    IF arg.steps = << >> THEN DefaultSteps ELSE arg.steps

\* run(): `if steps is None: steps = [...]`
ResolveSteps(arg) == IF arg.given THEN arg.steps ELSE DefaultSteps

\* variant: the loop walks the list from its end
NextStep_Reversed(steps, i) == steps[Len(steps) + 1 - i]

\* run(): `for step in steps`, the step of the i-th iteration
NextStep(steps, i) == steps[i]

\* the step methods the client of Spec calls directly
DirectSteps ==
    { DOWNLOAD_DATA, INITIALIZE_STACK, COMPUTE_ALIGNMENT,
      PHASE_UNWRAPPING, GENERATE_VISUALIZATIONS }

Range(f) == { f[i] : i \in DOMAIN f }

\* values of the optional fields when they are None
None == "None"

\* str(InterruptedError("Processing cancelled")), raised by _check_cancelled
CancelMsg == "Processing cancelled"
\* str(ValueError("... Call <prerequisite>() first."))
CallFirstMsg == "call first"
\* str(e) of any other exception raised by a step's computation
ErrorMsg == "error"
\* str(ValueError("No burst IDs provided"))
NoBurstsMsg == "No burst IDs provided"

VARIABLES
    \* ---- InSARProcessor ----
    cancelled,      \* self._cancelled
    results,        \* self.results : ProcessingStep -> ProcessingResult
    keyOrder,       \* the keys of self.results in the dict's (insertion) order
    sbas,           \* self._sbas is not None
    intf,           \* self._intf is not None
    unwrap,         \* self._unwrap is not None
    los_disp,       \* self._los_disp is set
    callbacks,      \* self._progress_callbacks (names of the observers)
    logCallbacks,   \* self._log_callbacks (names of the observers)
    \* ---- the thread executing processor code ----
    pc,             \* its control point
    inRun,          \* TRUE inside run(), FALSE in a direct step call
    runSteps,       \* run(): the list `steps`
    idx,            \* run(): position of the for loop in `steps`
    cur,            \* the step method being executed
    fate,           \* how the computation of the executing step will end
    \* ---- insar_service ----
    task,           \* processing_tasks[task_id], or NoTask
    wpc,            \* control point of run_processing_task's thread
    cpc,            \* control point of the cancel_task handler
    \* ---- what the observers and the notification code have done ----
    seen,           \* per progress observer: the values it was called with
    seenLog,        \* per log observer: the lines it was called with
    invoked,        \* observers called for the last progress report, in call order
    emitted,        \* values passed to _report_progress by the executing step
    emittedLog,     \* lines passed to _log since the executing step started
    \* ---- ProcessingConfig ----
    bursts,         \* config.bursts
    \* ---- the raster functions of the processing scripts ----
    call,           \* the function called and its arguments, or NoCall
    ret,            \* what the call returned
    \* ---- the HTTP side of insar_service ----
    resp,           \* the response to the last request handled, or NoResp
    workers,        \* threads started for the registry entry
    \* ---- history ----
    polled,         \* the snapshot the last get_status() call returned
    runArg,         \* the argument of the current run()
    started,        \* steps started by the current run(), in order
    freshRun,       \* the result mapping was empty when run() began
    lateRun,        \* the flag was already set when run() began
    lateStarts,     \* steps the current run() started with the flag set
    cancelMark,     \* completed steps of the run when cancel() first hit it
    calls,          \* API calls made by the client of Spec
    cancelCalls     \* cancel() calls made

procVars == << cancelled, results, keyOrder, sbas, intf, unwrap, los_disp,
              callbacks, logCallbacks >>
noteVars == << seen, seenLog, invoked, emitted, emittedLog >>
threadVars == << pc, inRun, runSteps, idx, cur, fate >>
svcVars == << task, wpc, cpc >>
histVars == << polled, runArg, started, freshRun, lateRun, lateStarts, cancelMark, calls,
              cancelCalls >>
configVars == << bursts >>
numVars == << call, ret >>
pipeVars == << procVars, noteVars, threadVars, svcVars, histVars >>
apiVars == << resp, workers >>
vars == << pipeVars, configVars, numVars, apiVars >>

NoTask == [status |-> "absent"]

\* no raster function has been called
NoCall == [fn |-> "none"]

\* no request has been answered
NoResp == [op |-> "none", code |-> 0]

\* create_turkey_earthquake_processor: the burst ids of the configuration
FactoryBursts ==
    << "S1_043817_IW2_20230210T033503_VV_E5B0-BURST",
       "S1_043817_IW2_20230129T033504_VV_BE0B-BURST",
       "S1_043818_IW2_20230210T033506_VV_E5B0-BURST",
       "S1_043818_IW2_20230129T033507_VV_BE0B-BURST" >>

\* entries of a burst list that hold white space only
BlankEntries == { "", " " }
Blank == ""

\* the burst lists a processor of CfgSpec is configured with
BurstLists ==
    { << >>, << Blank >>, << " ", Blank >>, FactoryBursts,
      << " ", FactoryBursts[1] >> }

\* b.strip(), for the entries above (a burst id carries no white space)
Strip(b) == IF b \in BlankEntries THEN Blank ELSE b

\* variant: the list is taken as configured
ParseBursts_AsConfigured(bs) == bs

\* download_data: bursts = [b.strip() for b in self.config.bursts if b.strip()]
ParseBursts(bs) ==
    SelectSeq([ i \in 1..Len(bs) |-> Strip(bs[i]) ], LAMBDA b : b # Blank)

\* processing_tasks[task_id]["results"] while it is None
NoSnapshot == [none |-> TRUE]

\* control points at which no processor code is executing
Quiescent == { "idle", "run_returned", "run_raised", "step_returned", "step_raised" }

(* ------------------------------------------------------------------ *)
(* ProcessingResult and the step bookkeeping                           *)
(* ------------------------------------------------------------------ *)
\* the generation of the result object _start_step creates for a step
NextGen(res, step) == IF step \in DOMAIN res THEN res[step].gen + 1 ELSE 1

\* ProcessingResult(step=step, status=RUNNING, start_time=now())
NewResult(step, gen) ==
    [ step |-> step, status |-> RUNNING, start_time |-> TRUE, end_time |-> FALSE,
      output_files |-> {}, error_message |-> None, gen |-> gen ]

\* variant: _start_step resets the result object the mapping already holds
StartStepResults_Reuse(res, step) ==
    IF step \in DOMAIN res
    THEN [ res EXCEPT ![step].status = RUNNING ]
    ELSE [ s \in DOMAIN res \cup {step} |->
             IF s = step THEN NewResult(step, 1) ELSE res[s] ]

\* _start_step: self.results[step] = result
StartStepResults(res, step) ==
    [ s \in DOMAIN res \cup {step} |->
        IF s = step THEN NewResult(step, NextGen(res, step)) ELSE res[s] ]

\* variant: _complete_step looks at the flag and records a cancellation
CompleteStep_ChecksFlag(r, files) ==
    IF cancelled
    THEN [ r EXCEPT !.status = CANCELLED, !.end_time = TRUE ]
    ELSE [ r EXCEPT !.status = COMPLETED,
                    !.end_time = TRUE,
                    !.output_files = IF files # {} THEN files ELSE @ ]

\* variant: _complete_step stamps the end time and leaves the status
CompleteStep_KeepsRunning(r, files) ==
    [ r EXCEPT !.end_time = TRUE,
               !.output_files = IF files # {} THEN files ELSE @ ]

\* _complete_step on a result object
CompleteStep(r, files) ==
    [ r EXCEPT !.status = COMPLETED,
               !.end_time = TRUE,
               !.output_files = IF files # {} THEN files ELSE @ ]

\* variant: _fail_step records the error and forgets the status
FailStep_KeepsRunning(r, error) ==
    [ r EXCEPT !.end_time = TRUE, !.error_message = error ]

\* variant: _fail_step marks the result failed and drops the error text
FailStep_NoMessage(r, error) ==
    [ r EXCEPT !.status = FAILED, !.end_time = TRUE ]

\* _fail_step on a result object
FailStep(r, error) ==
    [ r EXCEPT !.status = FAILED,
               !.end_time = TRUE,
               !.error_message = error ]

\* _check_cancelled: raises InterruptedError iff the flag is set
CheckCancelledRaises(flag) == flag

\* variant: run() never looks at the flag at the step boundary
BoundaryStops_Never(flag) == FALSE

\* run(): the boundary check `if self._cancelled: break`
BoundaryStops(flag) == flag

\* variant: run() re-raises the failure of every step
RunReraises_Always(step) == TRUE

\* variant: run() swallows the failure of every step
RunReraises_Never(step) == FALSE

\* run(): `if step not in [GENERATE_VISUALIZATIONS]: raise`
RunReraises(step) == step \notin { GENERATE_VISUALIZATIONS }

\* variant: cancel() flips the flag
CancelFlag_Toggle(flag) == ~flag

\* cancel(): self._cancelled = True
CancelFlag(flag) == TRUE

\* _start_step: self.results[step] = result, seen from the dict's key order
\* (a key stored again keeps its place)
StartStepOrder(order, step) ==
    IF step \in Range(order) THEN order ELSE Append(order, step)

(* ------------------------------------------------------------------ *)
(* Observers                                                           *)
(* ------------------------------------------------------------------ *)
\* the callbacks registered with on_progress / on_log: the two closures of
\* run_processing_task, a callback that records its arguments, and a callback
\* that raises an exception every time it is called
SvcProgress == "on_progress"
SvcLog == "on_log"
Recorder == "recorder"
Raiser == "raiser"
ObserverKinds == { Recorder, Raiser }

\* variant: the loop over the callbacks ends at the first one that raises
Invoked_StopAtRaise(cbs) ==
    LET bad == { i \in 1..Len(cbs) : cbs[i] = Raiser }
        last == IF bad = {} THEN Len(cbs)
                ELSE CHOOSE i \in bad : \A j \in bad : i <= j
    IN  [ i \in 1..last |-> i ]

\* variant: the loop walks the callbacks from the last registered to the first
Invoked_Reversed(cbs) == [ i \in 1..Len(cbs) |-> Len(cbs) + 1 - i ]

\* _log / _report_progress: `for callback in ...: try: callback(...) except
\* Exception` -- the positions of the callbacks called, in call order
Invoked(cbs) == [ i \in 1..Len(cbs) |-> i ]

\* the arguments each observer has been called with, after the events evs
\* were passed one by one to the callbacks cbs
DeliverAll(sn, cbs, evs) ==
    [ i \in 1..Len(cbs) |->
        IF i \in Range(Invoked(cbs)) THEN sn[i] \o evs ELSE sn[i] ]

\* the observers' records at the start of a step execution
NoneSeen(cbs) == [ i \in 1..Len(cbs) |-> << >> ]

\* _report_progress: the line f"[{step.value}] {progress:.1f}% - {message}"
LogLine(step, progress) == << step, progress >>

\* cancel(): the line "Processing cancelled by user"
CancelLine == << "Processing cancelled by user", 0 >>

LogLines(step, values) == [ i \in 1..Len(values) |-> LogLine(step, values[i]) ]

\* run_processing_task.on_progress applied to the registry entry
OnProgress(t, step, progress, message) ==
    [ t EXCEPT !.current_step = step, !.progress = progress, !.message = message ]

\* _report_progress: every registered callback is invoked; an exception of a
\* callback (KeyError when the registry holds no entry) is caught and logged
ReportProgress(t, step, progress, message) ==
    IF (\E i \in Range(Invoked(callbacks)) : callbacks[i] = SvcProgress) /\ t # NoTask
    THEN OnProgress(t, step, progress, message)
    ELSE t

\* variant: a registration replaces the callbacks registered before
Register_Replace(cbs, callback) == << callback >>

\* on_progress / on_log: self._..._callbacks.append(callback)
Register(cbs, callback) == Append(cbs, callback)

(* ------------------------------------------------------------------ *)
(* get_status                                                          *)
(* ------------------------------------------------------------------ *)
\* variant: the count takes every finished step, whatever its status
CountStatus_Finished(res, st) ==
    Cardinality({ s \in DOMAIN res : res[s].status \in Terminal })

\* get_status: sum(1 for r in self.results.values() if r.status == st)
CountStatus(res, st) == Cardinality({ s \in DOMAIN res : res[s].status = st })

GetStatus ==
    [ total_steps |-> Len(ProcessingStep),
      completed_steps |-> CountStatus(results, COMPLETED),
      failed_steps |-> CountStatus(results, FAILED),
      cancelled |-> cancelled,
      results |-> [ s \in DOMAIN results |->
                      [ status |-> results[s].status,
                        end_time |-> results[s].end_time,
                        output_files |-> results[s].output_files,
                        error |-> results[s].error_message ] ] ]

(* ------------------------------------------------------------------ *)
(* Initial state: a freshly constructed processor, an empty registry   *)
(* ------------------------------------------------------------------ *)
InitPipeline ==
    /\ cancelled = FALSE
    /\ results = << >>
    /\ keyOrder = << >>
    /\ sbas = FALSE
    /\ intf = FALSE
    /\ unwrap = FALSE
    /\ los_disp = FALSE
    /\ callbacks = << >>
    /\ logCallbacks = << >>
    /\ seen = << >>
    /\ seenLog = << >>
    /\ invoked = << >>
    /\ emitted = << >>
    /\ emittedLog = << >>
    /\ polled = NoSnapshot
    /\ runArg = NoArg
    /\ pc = "idle"
    /\ inRun = FALSE
    /\ runSteps = << >>
    /\ idx = 1
    /\ cur = None
    /\ fate = None
    /\ task = NoTask
    /\ wpc = "none"
    /\ cpc = "idle"
    /\ started = << >>
    /\ freshRun = FALSE
    /\ lateRun = FALSE
    /\ lateStarts = 0
    /\ cancelMark = -1
    /\ calls = 0
    /\ cancelCalls = 0
    /\ resp = NoResp
    /\ workers = 0

\* a processor built by create_turkey_earthquake_processor; no raster function
\* has been called
Init ==
    /\ InitPipeline
    /\ bursts = FactoryBursts
    /\ call = NoCall
    /\ ret = NoCall

(* ------------------------------------------------------------------ *)
(* The step methods                                                    *)
(* ------------------------------------------------------------------ *)
\* the `... is None` tests that open a step's computation
PrerequisiteMissing(step) ==
    CASE step \in { COMPUTE_ALIGNMENT, COMPUTE_GEOCODING, COMPUTE_INTERFEROGRAM }
            -> ~sbas
      [] step = PHASE_UNWRAPPING -> ~sbas \/ ~intf
      [] step = COMPUTE_DISPLACEMENT -> ~sbas \/ ~unwrap
      [] OTHER -> FALSE

\* the ways the computation of a step can end, decided by the prerequisites and
\* by the external collaborators (network, files, PyGMTSAR), never by the flag:
\*   ok          runs to _complete_step
\*   ok_empty    runs to _complete_step with an empty output_files list
\*   fail        raises before the step assigns any processor attribute
\*   fail_late   raises after the step assigned its attribute
\*               (initialize_stack: self._sbas; compute_interferogram: self._intf)
\*   fail_prereq raises ValueError("... Call ...() first.")
\*   fail_config raises ValueError("No burst IDs provided")
Fates(step) ==
    IF PrerequisiteMissing(step)
    THEN { "fail_prereq" }
    ELSE IF step = DOWNLOAD_DATA /\ ParseBursts(bursts) = << >>
    THEN { "fail_config" }
    ELSE { "ok", "fail" }
         \cup (IF step \in { INITIALIZE_STACK, COMPUTE_INTERFEROGRAM }
               THEN { "fail_late" } ELSE {})
         \cup (IF step = GENERATE_VISUALIZATIONS THEN { "ok_empty" } ELSE {})

Succeeds(f) == f \in { "ok", "ok_empty" }

\* the output_files argument a step passes to _complete_step
OutputFiles(step, f) ==
    IF f = "ok" /\ step \in { DOWNLOAD_DATA, DOWNLOAD_DEM, DOWNLOAD_LANDMASK,
                              GENERATE_VISUALIZATIONS }
    THEN { step }
    ELSE {}

\* the values a step passes to _report_progress between _start_step and
\* _complete_step, in program order (generate_visualizations reports 40 and 50
\* only when the interferogram and its correlation exist, 70 only when the
\* displacement exists; self._corr is taken to exist when self._intf does)
ProgressMarks(step) ==
    CASE step = DOWNLOAD_DATA -> << 10, 20, 80 >>
      [] step = DOWNLOAD_DEM -> << 30 >>
      [] step = DOWNLOAD_LANDMASK -> << 50 >>
      [] step = INITIALIZE_STACK -> << 30, 60 >>
      [] step = COMPUTE_ALIGNMENT -> << 10, 30 >>
      [] step = COMPUTE_GEOCODING -> << 30 >>
      [] step = COMPUTE_INTERFEROGRAM -> << 10, 30, 50, 70, 85 >>
      [] step = PHASE_UNWRAPPING -> << 20, 40, 60 >>
      [] step = COMPUTE_DISPLACEMENT -> << 20, 40, 60, 80 >>
      [] step = GENERATE_VISUALIZATIONS ->
            << 10, 20 >> \o (IF intf THEN << 40, 50 >> ELSE << >>)
                        \o (IF los_disp THEN << 70 >> ELSE << >>)

Prefixes(seq) == { SubSeq(seq, 1, k) : k \in 0..Len(seq) }

\* the intermediate values a step can have reported when its computation ends:
\* all of them on success (none when a download finds its files on disk and
\* returns early), those up to the failing statement on failure
Emissions(step, f) ==
    CASE f \in { "fail_prereq", "fail_config" } -> { << >> }
      [] f = "fail_late" -> { ProgressMarks(step) }
      [] f = "fail" ->
            IF step = INITIALIZE_STACK
            THEN Prefixes(<< 30 >>)
            ELSE Prefixes(ProgressMarks(step))
      [] OTHER ->
            { ProgressMarks(step) }
            \cup (IF step \in { DOWNLOAD_DATA, DOWNLOAD_DEM, DOWNLOAD_LANDMASK }
                  THEN { << >> } ELSE {})

\* variant: _fail_step reports the value of a completed step
TerminalValue_AlwaysHundred(status) == 100

\* the value _complete_step / _fail_step pass to _report_progress
TerminalValue(status) == IF status = COMPLETED THEN 100 ELSE -1

\* the notification code of _report_progress for the values evs of step
\* `cur`: each value is logged, then passed to the progress callbacks
Report(evs) ==
    /\ emitted' = emitted \o evs
    /\ emittedLog' = emittedLog \o LogLines(cur, evs)
    /\ seen' = DeliverAll(seen, callbacks, evs)
    /\ seenLog' = DeliverAll(seenLog, logCallbacks, LogLines(cur, evs))
    /\ invoked' = Invoked(callbacks)

\* str(e) of the exception a failing computation raises
FateMessage(f) ==
    CASE f = "fail_prereq" -> CallFirstMsg
      [] f = "fail_config" -> NoBurstsMsg
      [] OTHER -> ErrorMsg

\* the step method returns its result
AfterReturn ==
    IF inRun
    THEN pc' = "run_check" /\ idx' = idx + 1
    ELSE pc' = "step_returned" /\ idx' = idx

\* the step method re-raises; run() logs and re-raises unless the step is
\* GENERATE_VISUALIZATIONS
AfterRaise ==
    IF inRun
    THEN IF RunReraises(cur)
         THEN pc' = "run_raised" /\ idx' = idx
         ELSE pc' = "run_check" /\ idx' = idx + 1
    ELSE pc' = "step_raised" /\ idx' = idx

\* run(): entry up to the head of the for loop
RunEnter(arg) ==
    /\ inRun' = TRUE
    /\ runArg' = arg
    /\ runSteps' = ResolveSteps(arg)
    /\ idx' = 1
    /\ pc' = "run_check"
    /\ cur' = None
    /\ fate' = None
    /\ started' = << >>
    /\ freshRun' = (DOMAIN results = {})
    /\ lateRun' = cancelled
    /\ lateStarts' = 0
    /\ cancelMark' = -1

\* run(): `for step in steps: if self._cancelled: ... break`
RunCheck ==
    /\ pc = "run_check"
    /\ IF idx > Len(runSteps) \/ BoundaryStops(cancelled)
       THEN /\ pc' = "run_returned"
            /\ cur' = cur
       ELSE /\ pc' = "step_start"
            /\ cur' = NextStep(runSteps, idx)
    /\ UNCHANGED << procVars, noteVars, inRun, runSteps, idx, fate, svcVars,
                    histVars >>
    /\ UNCHANGED << configVars, numVars, apiVars >>

\* the first statement of every step method: result = self._start_step(STEP)
StepStart ==
    /\ pc = "step_start"
    /\ results' = StartStepResults(results, cur)
    /\ keyOrder' = StartStepOrder(keyOrder, cur)
    /\ task' = ReportProgress(task, cur, 0, "Starting")
    /\ emitted' = << 0 >>
    /\ emittedLog' = << LogLine(cur, 0) >>
    /\ seen' = DeliverAll(NoneSeen(callbacks), callbacks, << 0 >>)
    /\ seenLog' = DeliverAll(NoneSeen(logCallbacks), logCallbacks,
                             << LogLine(cur, 0) >>)
    /\ invoked' = Invoked(callbacks)
    /\ pc' = "step_check"
    /\ started' = IF inRun THEN Append(started, cur) ELSE started
    /\ lateStarts' = IF inRun /\ cancelled THEN lateStarts + 1 ELSE lateStarts
    /\ UNCHANGED << cancelled, sbas, intf, unwrap, los_disp, callbacks,
                    logCallbacks, inRun, runSteps, idx, cur, fate, wpc, cpc,
                    polled, runArg, freshRun, lateRun, cancelMark, calls, cancelCalls >>
    /\ UNCHANGED << configVars, numVars, apiVars >>

\* try: self._check_cancelled() ... except Exception as e: _fail_step; raise
StepCheck ==
    /\ pc = "step_check"
    /\ IF CheckCancelledRaises(cancelled)
       THEN /\ results' = [results EXCEPT ![cur] = FailStep(@, CancelMsg)]
            /\ task' = ReportProgress(task, cur, TerminalValue(FAILED), "Failed")
            /\ Report(<< TerminalValue(FAILED) >>)
            /\ fate' = None
            /\ AfterRaise
       ELSE /\ pc' = "step_body"
            /\ fate' \in Fates(cur)
            /\ UNCHANGED << results, task, idx, noteVars >>
    /\ UNCHANGED << cancelled, keyOrder, sbas, intf, unwrap, los_disp, callbacks,
                    logCallbacks, inRun, runSteps, cur, wpc, cpc, histVars >>
    /\ UNCHANGED << configVars, numVars, apiVars >>

\* the computation of the step, up to _complete_step / _fail_step and the
\* return or re-raise
StepBody ==
    /\ pc = "step_body"
    /\ sbas' = (sbas \/ (cur = INITIALIZE_STACK /\ fate \in { "ok", "fail_late" }))
    /\ intf' = (intf \/ (cur = COMPUTE_INTERFEROGRAM /\ fate \in { "ok", "fail_late" }))
    /\ unwrap' = (unwrap \/ (cur = PHASE_UNWRAPPING /\ fate = "ok"))
    /\ los_disp' = (los_disp \/ (cur = COMPUTE_DISPLACEMENT /\ fate = "ok"))
    /\ IF Succeeds(fate)
       THEN /\ results' = [results EXCEPT
                             ![cur] = CompleteStep(@, OutputFiles(cur, fate))]
            /\ task' = ReportProgress(task, cur, TerminalValue(COMPLETED), "Completed")
            /\ \E marks \in Emissions(cur, fate) :
                  Report(marks \o << TerminalValue(COMPLETED) >>)
            /\ AfterReturn
       ELSE /\ results' = [results EXCEPT ![cur] = FailStep(@, FateMessage(fate))]
            /\ task' = ReportProgress(task, cur, TerminalValue(FAILED), "Failed")
            /\ \E marks \in Emissions(cur, fate) :
                  Report(marks \o << TerminalValue(FAILED) >>)
            /\ AfterRaise
    /\ fate' = None
    /\ UNCHANGED << cancelled, keyOrder, callbacks, logCallbacks, inRun, runSteps,
                    cur, wpc, cpc, histVars >>
    /\ UNCHANGED << configVars, numVars, apiVars >>

(* ------------------------------------------------------------------ *)
(* cancel()                                                            *)
(* ------------------------------------------------------------------ *)
CompletedInRun ==
    Cardinality({ s \in Range(started) : results[s].status = COMPLETED })

\* history: where the first cancel() met the run in progress
MarkCancel ==
    IF inRun /\ pc \notin Quiescent /\ cancelMark = -1
    THEN CompletedInRun
    ELSE cancelMark

\* cancel(): self._log("Processing cancelled by user")
CancelLogged ==
    /\ emittedLog' = Append(emittedLog, CancelLine)
    /\ seenLog' = DeliverAll(seenLog, logCallbacks, << CancelLine >>)
    /\ UNCHANGED << seen, invoked, emitted >>

\* InSARProcessor.cancel(), called from any thread at any moment
Cancel ==
    /\ cancelCalls < MaxCancels
    /\ cancelled' = CancelFlag(cancelled)
    /\ CancelLogged
    /\ cancelMark' = MarkCancel
    /\ cancelCalls' = cancelCalls + 1
    /\ UNCHANGED << results, keyOrder, sbas, intf, unwrap, los_disp, callbacks,
                    logCallbacks, threadVars, svcVars, polled, runArg, started,
                    freshRun, lateRun, lateStarts, calls >>
    /\ UNCHANGED << configVars, numVars, apiVars >>

(* ------------------------------------------------------------------ *)
(* The client of Spec                                                  *)
(* ------------------------------------------------------------------ *)
\* the records of the notifications start anew with every call of the client
NewCall ==
    /\ emitted' = << >>
    /\ emittedLog' = << >>
    /\ seen' = NoneSeen(callbacks)
    /\ seenLog' = NoneSeen(logCallbacks)
    /\ invoked' = << >>

\* processor.run(steps)
CallRun ==
    /\ pc \in Quiescent
    /\ calls < MaxCalls
    /\ \E arg \in RunArgs : RunEnter(arg)
    /\ NewCall
    /\ calls' = calls + 1
    /\ UNCHANGED << procVars, svcVars, polled, cancelCalls >>
    /\ UNCHANGED << configVars, numVars, apiVars >>

\* processor.<step method>()
CallStep ==
    /\ pc \in Quiescent
    /\ calls < MaxCalls
    /\ \E s \in DirectSteps : cur' = s
    /\ pc' = "step_start"
    /\ inRun' = FALSE
    /\ runSteps' = << >>
    /\ idx' = 1
    /\ fate' = None
    /\ started' = << >>
    /\ freshRun' = FALSE
    /\ lateRun' = FALSE
    /\ lateStarts' = 0
    /\ cancelMark' = -1
    /\ NewCall
    /\ calls' = calls + 1
    /\ UNCHANGED << procVars, svcVars, polled, runArg, cancelCalls >>
    /\ UNCHANGED << configVars, numVars, apiVars >>

Next ==
    \/ CallRun
    \/ CallStep
    \/ RunCheck
    \/ StepStart
    \/ StepCheck
    \/ StepBody
    \/ Cancel

Spec == Init /\ [][Next]_vars

(* ------------------------------------------------------------------ *)
(* CfgSpec: the client of Spec with a processor of any configuration   *)
(* ------------------------------------------------------------------ *)
CfgInit ==
    /\ InitPipeline
    /\ bursts \in BurstLists
    /\ call = NoCall
    /\ ret = NoCall

CfgSpec == CfgInit /\ [][Next]_vars

(* ------------------------------------------------------------------ *)
(* ObsSpec: one run() with observers registering at any moment         *)
(* ------------------------------------------------------------------ *)
\* the records of the observers after the list of callbacks changed to cbs
Resize(sn, cbs) ==
    [ i \in 1..Len(cbs) |-> IF i <= Len(sn) /\ i < Len(cbs) THEN sn[i] ELSE << >> ]

\* processor.on_progress(callback)
OnProgressCall ==
    /\ Len(callbacks) + Len(logCallbacks) < MaxObservers
    /\ \E k \in ObserverKinds : callbacks' = Register(callbacks, k)
    /\ seen' = Resize(seen, callbacks')
    /\ UNCHANGED << cancelled, results, keyOrder, sbas, intf, unwrap, los_disp,
                    logCallbacks, seenLog, invoked, emitted, emittedLog,
                    threadVars, svcVars, histVars >>
    /\ UNCHANGED << configVars, numVars, apiVars >>

\* processor.on_log(callback)
OnLogCall ==
    /\ Len(callbacks) + Len(logCallbacks) < MaxObservers
    /\ \E k \in ObserverKinds : logCallbacks' = Register(logCallbacks, k)
    /\ seenLog' = Resize(seenLog, logCallbacks')
    /\ UNCHANGED << cancelled, results, keyOrder, sbas, intf, unwrap, los_disp,
                    callbacks, seen, invoked, emitted, emittedLog,
                    threadVars, svcVars, histVars >>
    /\ UNCHANGED << configVars, numVars, apiVars >>

\* the one processor.run(steps) of ObsSpec and PollSpec, over an explicit list
CallRunOnce ==
    /\ pc = "idle"
    /\ \E arg \in RunArgs : arg.given /\ RunEnter(arg)
    /\ calls' = calls + 1
    /\ UNCHANGED << procVars, noteVars, svcVars, polled, cancelCalls >>
    /\ UNCHANGED << configVars, numVars, apiVars >>

ObsNext ==
    \/ OnProgressCall
    \/ OnLogCall
    \/ CallRunOnce
    \/ RunCheck
    \/ StepStart
    \/ StepCheck
    \/ StepBody
    \/ Cancel

ObsSpec == Init /\ [][ObsNext]_vars

(* ------------------------------------------------------------------ *)
(* PollSpec: one run() while another thread calls get_status()         *)
(* ------------------------------------------------------------------ *)
\* variant: get_status() takes a lock the executing step method holds
GetStatusCall_Waits ==
    /\ pc \notin { "step_check", "step_body" }
    /\ polled' = GetStatus
    /\ UNCHANGED << procVars, noteVars, threadVars, svcVars, runArg, started,
                    freshRun, lateRun, lateStarts, cancelMark, calls, cancelCalls >>
    /\ UNCHANGED << configVars, numVars, apiVars >>

\* variant: get_status() finalizes the results it finds RUNNING
GetStatusCall_Finalizes ==
    /\ polled' = GetStatus
    /\ results' = [ s \in DOMAIN results |->
                      IF results[s].status = RUNNING
                      THEN [ results[s] EXCEPT !.status = FAILED ]
                      ELSE results[s] ]
    /\ UNCHANGED << cancelled, keyOrder, sbas, intf, unwrap, los_disp, callbacks,
                    logCallbacks, noteVars, threadVars, svcVars, runArg, started,
                    freshRun, lateRun, lateStarts, cancelMark, calls, cancelCalls >>
    /\ UNCHANGED << configVars, numVars, apiVars >>

\* processor.get_status(), called from any thread at any moment: it builds
\* its answer from the fields and assigns none
GetStatusCall ==
    /\ polled' = GetStatus
    /\ UNCHANGED << procVars, noteVars, threadVars, svcVars, runArg, started,
                    freshRun, lateRun, lateStarts, cancelMark, calls, cancelCalls >>
    /\ UNCHANGED << configVars, numVars, apiVars >>

PollNext ==
    \/ CallRunOnce
    \/ RunCheck
    \/ StepStart
    \/ StepCheck
    \/ StepBody
    \/ Cancel
    \/ GetStatusCall

PollSpec == Init /\ [][PollNext]_vars

(* ------------------------------------------------------------------ *)
(* insar_service: the registry entry, the worker, cancel_task          *)
(* ------------------------------------------------------------------ *)
\* start_processing: processing_tasks[task_id] = {...}
NewTask ==
    [ status |-> "pending", current_step |-> None, progress |-> 0,
      message |-> "Task created", results |-> NoSnapshot, output_files |-> {},
      error |-> None ]

\* the files collected from the result mapping run() returned
CollectedFiles ==
    UNION { results[s].output_files : s \in DOMAIN results }

\* start_processing: the task id is new; creates the processor and the entry
\* and starts the worker thread
StartProcessing ==
    /\ wpc = "none"
    /\ task = NoTask
    /\ task' = NewTask
    /\ wpc' = "spawned"
    /\ workers' = workers + 1
    /\ UNCHANGED << procVars, noteVars, threadVars, cpc, histVars >>
    /\ UNCHANGED << configVars, numVars, resp >>

\* run_processing_task: processing_tasks[task_id]["status"] = "running"
WorkerSetRunning ==
    /\ wpc = "spawned"
    /\ task # NoTask
    /\ task' = [task EXCEPT !.status = "running"]
    /\ wpc' = "registering"
    /\ UNCHANGED << procVars, noteVars, threadVars, cpc, histVars >>
    /\ UNCHANGED << configVars, numVars, apiVars >>

\* run_processing_task: registers its callbacks and calls processor.run()
WorkerEnterRun ==
    /\ wpc = "registering"
    /\ callbacks' = Register(callbacks, SvcProgress)
    /\ logCallbacks' = Register(logCallbacks, SvcLog)
    /\ seen' = Append(seen, << >>)
    /\ seenLog' = Append(seenLog, << >>)
    /\ RunEnter(NoArg)
    /\ wpc' = "in_run"
    /\ UNCHANGED << cancelled, results, keyOrder, sbas, intf, unwrap, los_disp,
                    invoked, emitted, emittedLog, task, cpc, polled, calls,
                    cancelCalls >>
    /\ UNCHANGED << configVars, numVars, apiVars >>

\* run() returned: processing_tasks[task_id]["status"] = "completed"
WorkerCompleted ==
    /\ wpc = "in_run"
    /\ pc = "run_returned"
    /\ task # NoTask
    /\ task' = [task EXCEPT !.status = "completed"]
    /\ wpc' = "collect"
    /\ UNCHANGED << procVars, noteVars, threadVars, cpc, histVars >>
    /\ UNCHANGED << configVars, numVars, apiVars >>

\* ... ["results"] = processor.get_status(); output files are collected
WorkerCollect ==
    /\ wpc = "collect"
    /\ task # NoTask
    /\ task' = [task EXCEPT !.results = GetStatus, !.output_files = CollectedFiles]
    /\ wpc' = "done"
    /\ UNCHANGED << procVars, noteVars, threadVars, cpc, histVars >>
    /\ UNCHANGED << configVars, numVars, apiVars >>

\* variant: the except clause logs the failure and writes nothing
WorkerFailed_KeepsStatus ==
    /\ wpc = "in_run"
    /\ pc = "run_raised"
    /\ task # NoTask
    /\ wpc' = "done"
    /\ UNCHANGED << procVars, noteVars, threadVars, task, cpc, histVars >>
    /\ UNCHANGED << configVars, numVars, apiVars >>

\* run() raised: except Exception: status = "failed", error = str(e)
WorkerFailed ==
    /\ wpc = "in_run"
    /\ pc = "run_raised"
    /\ task # NoTask
    /\ task' = [task EXCEPT !.status = "failed",
                            !.error = results[cur].error_message]
    /\ wpc' = "done"
    /\ UNCHANGED << procVars, noteVars, threadVars, cpc, histVars >>
    /\ UNCHANGED << configVars, numVars, apiVars >>

\* cancel_task, first half: the 404 / 400 checks pass and processor.cancel()
\* is called
CancelTaskBegin ==
    /\ cpc = "idle"
    /\ task # NoTask
    /\ task.status \in { "pending", "running" }
    /\ cancelCalls < MaxCancels
    /\ cancelled' = CancelFlag(cancelled)
    /\ CancelLogged
    /\ cancelMark' = MarkCancel
    /\ cancelCalls' = cancelCalls + 1
    /\ cpc' = "write"
    /\ UNCHANGED << results, keyOrder, sbas, intf, unwrap, los_disp, callbacks,
                    logCallbacks, threadVars, task, wpc, polled, runArg, started,
                    freshRun, lateRun, lateStarts, calls >>
    /\ UNCHANGED << configVars, numVars, apiVars >>

\* cancel_task, second half: task["status"] = "cancelled" and the response
CancelTaskEnd ==
    /\ cpc = "write"
    /\ task' = [task EXCEPT !.status = "cancelled",
                            !.message = "Task cancelled by user"]
    /\ cpc' = "idle"
    /\ UNCHANGED << procVars, noteVars, threadVars, wpc, histVars >>
    /\ UNCHANGED << configVars, numVars, apiVars >>

SvcNext ==
    \/ StartProcessing
    \/ WorkerSetRunning
    \/ WorkerEnterRun
    \/ RunCheck
    \/ StepStart
    \/ StepCheck
    \/ StepBody
    \/ WorkerCompleted
    \/ WorkerCollect
    \/ WorkerFailed
    \/ CancelTaskBegin
    \/ CancelTaskEnd

SvcSpec == Init /\ [][SvcNext]_vars

(* ================================================================== *)
(* Properties                                                          *)
(* ================================================================== *)

\* the step at position idx of run()'s list has just failed and run() re-raised
C1_Raised ==
    pc = "run_raised" =>
        /\ idx \in 1..Len(runSteps)
        /\ cur = runSteps[idx]
        /\ cur # GENERATE_VISUALIZATIONS
        /\ results[cur].status = FAILED
        /\ started = SubSeq(runSteps, 1, idx)
        /\ (freshRun =>
              \A j \in (idx + 1)..Len(runSteps) : runSteps[j] \notin DOMAIN results)

\* a step other than GENERATE_VISUALIZATIONS going from RUNNING to FAILED inside
\* run() ends run() by the exception
C1_FailurePropagates ==
    (/\ inRun
     /\ pc \in { "step_check", "step_body" }
     /\ cur # GENERATE_VISUALIZATIONS
     /\ results[cur].status = RUNNING
     /\ results'[cur].status = FAILED)
    => pc' = "run_raised"

\* C1: in run(), when a step other than GENERATE_VISUALIZATIONS fails, its
\* result is FAILED, the failure reaches run()'s caller, and no later step of
\* the list is started: the steps started are the list up to the failed step,
\* the later ones are absent from a mapping that was empty when run() began,
\* and the mapping does not change once run() has raised.
C1_CriticalFailureAborts ==
    /\ [] C1_Raised
    /\ [][ C1_FailurePropagates /\ (pc = "run_raised" => results' = results) ]_vars

\* C1 witness: run() raised at a step that is not the last of its list, on a
\* processor whose mapping was empty, with the later steps absent
C1_Witness ==
    /\ pc = "run_raised"
    /\ freshRun
    /\ idx < Len(runSteps)
    /\ results[cur].status = FAILED
    /\ runSteps[idx + 1] \notin DOMAIN results

\* C2 (as claimed): once the flag is set, run() starts no further step
C2_NoStartOnceFlagSet ==
    [][ (inRun /\ cancelled /\ pc = "step_start") => Len(started') <= Len(started) ]_vars

\* C2 (amended): run() starts a step only after a boundary check that found
\* the flag clear. A boundary check that finds the flag set ends run() and
\* changes nothing; so once the flag is set at most one further step is
\* started (the one whose boundary check had already passed), and the steps
\* present in a mapping that was empty when run() began are exactly the steps
\* run() started: none is recorded as pending, failed or cancelled without
\* having been started.
C2_BoundaryCheckStops ==
    /\ [] (/\ lateStarts <= 1
           /\ (inRun /\ freshRun => DOMAIN results = Range(started)))
    /\ [][ (pc = "run_check" /\ cancelled /\ pc' # pc)
              => (pc' = "run_returned" /\ results' = results /\ started' = started) ]_vars

\* C2 witness: the flag was set after a boundary check had passed, that one
\* step was started, and the next boundary check stopped run() with steps of
\* the list left unstarted and absent
C2_Witness ==
    /\ inRun /\ freshRun /\ cancelled
    /\ pc = "run_returned"
    /\ lateStarts = 1
    /\ idx <= Len(runSteps)
    /\ runSteps[idx] \notin DOMAIN results

\* C3: a step that was started and then observed the cancellation flag (its
\* result carries the message of the InterruptedError) is finalized CANCELLED,
\* not FAILED
C3_ObservedCancelIsCancelled ==
    \A s \in DOMAIN results :
        results[s].error_message = CancelMsg => results[s].status = CANCELLED

\* C4: once cancel_task has succeeded, the task's status is 'cancelled' and no
\* later write of the worker changes it
C4_CancelledStays ==
    [][ (task.status = "cancelled" /\ cpc = "idle") => task'.status = "cancelled" ]_vars

\* C5 (as claimed): an exception raised inside a step never leaves the step
\* method, which ends with a FAILED result carrying a message and with no
\* result left RUNNING
C5_NeverEscapes ==
    /\ pc # "step_raised"
    /\ pc \in Quiescent =>
          \A s \in DOMAIN results :
              /\ results[s].status # RUNNING
              /\ results[s].status = FAILED => results[s].error_message # None

\* C5 (amended): an exception raised inside a step is caught at the step
\* boundary, recorded as a FAILED result carrying the exception's message, and
\* then re-raised to the caller of the step method; a step method that returns
\* leaves its result COMPLETED, one that raises leaves it FAILED, and no result
\* is RUNNING once the step method has ended
C5_FailedThenReraised ==
    /\ pc \in Quiescent \cup { "run_check", "step_start" } =>
          \A s \in DOMAIN results :
              /\ results[s].status # RUNNING
              /\ results[s].status = FAILED =>
                    results[s].error_message \in { CancelMsg, CallFirstMsg, ErrorMsg }
    /\ pc \in { "step_raised", "run_raised" } =>
          /\ results[cur].status = FAILED
          /\ results[cur].end_time
    /\ pc = "step_returned" =>
          /\ results[cur].status = COMPLETED
          /\ results[cur].error_message = None

\* C5 witness: a step method called directly ended by re-raising the exception
\* of its computation, its result FAILED with the message
C5_Witness ==
    /\ pc = "step_raised"
    /\ results[cur].status = FAILED
    /\ results[cur].error_message = ErrorMsg

\* every result is RUNNING without end_time or terminal with end_time
C6_Shape ==
    \A s \in DOMAIN results :
        /\ results[s].status \in { RUNNING } \cup Terminal
        /\ results[s].end_time <=> results[s].status \in Terminal

\* one step of the system, seen from the result objects: an object enters the
\* mapping RUNNING; a RUNNING object changes only by becoming terminal with
\* end_time set; a terminal object does not change
C6_Step ==
    /\ DOMAIN results \subseteq DOMAIN results'
    /\ \A s \in DOMAIN results' :
          IF s \notin DOMAIN results
          THEN results'[s].status = RUNNING /\ results'[s].gen = 1
          ELSE IF results'[s].gen # results[s].gen
          THEN /\ results'[s].status = RUNNING
               /\ results'[s].gen = results[s].gen + 1
               /\ results[s].status \in Terminal
          ELSE /\ results[s].status \in Terminal => results'[s] = results[s]
               /\ results'[s] # results[s] =>
                     /\ results[s].status = RUNNING
                     /\ results'[s].status \in Terminal
                     /\ results'[s].end_time

\* C6: each ProcessingResult object (a step and its generation) is created
\* RUNNING, makes exactly one transition, to COMPLETED, FAILED or CANCELLED
\* with end_time set, and never changes after it
C6_FinalizedOnce ==
    [] C6_Shape /\ [][ C6_Step ]_vars

\* C6 witness: a step was started again after its first result had become
\* terminal, and the second result object is terminal too
C6_Witness ==
    \E s \in DOMAIN results : results[s].gen = 2 /\ results[s].status \in Terminal

\* the visualization step has failed
VizFailed ==
    /\ GENERATE_VISUALIZATIONS \in DOMAIN results
    /\ results[GENERATE_VISUALIZATIONS].status = FAILED

\* C7: when GENERATE_VISUALIZATIONS fails, run() goes on to return normally,
\* every other step result is COMPLETED, and the worker marks the task
\* 'completed', never 'failed' (only a cancel request can still overwrite the
\* status, with 'cancelled')
C7_VizFailureDoesNotAbort ==
    /\ [] (VizFailed =>
             /\ pc # "run_raised"
             /\ \A s \in DOMAIN results \ { GENERATE_VISUALIZATIONS } :
                   results[s].status = COMPLETED
             /\ task.status # "failed"
             /\ wpc = "done" => task.status \in { "completed", "cancelled" })
    /\ [][ /\ (VizFailed' /\ ~VizFailed) => pc' = "run_check"
           /\ (VizFailed /\ wpc = "in_run" /\ wpc' # wpc) =>
                 (pc = "run_returned" /\ task'.status = "completed") ]_vars

\* C7 witness: the worker is done, the visualization failed on its own
\* computation, the nine other steps are COMPLETED and the task is 'completed'
C7_Witness ==
    /\ wpc = "done"
    /\ VizFailed
    /\ results[GENERATE_VISUALIZATIONS].error_message = ErrorMsg
    /\ CountStatus(results, COMPLETED) = 9
    /\ task.status = "completed"
    /\ task.results.failed_steps = 1

\* the step in flight when cancel() arrives after the second completed step
InFlight == DefaultSteps[3]

\* C8: cancel() arrives during a ten-step run() on a fresh processor when
\* exactly two steps have completed, and no step fails on its own computation.
\* When run() has ended, get_status() reports the two completed steps (and the
\* in-flight step, if it completed), the in-flight step is recorded cancelled
\* or completed, never failed, and no later step is present
C8_CancelAfterTwo ==
    (/\ pc \in { "run_returned", "run_raised" }
     /\ inRun /\ freshRun
     /\ runSteps = DefaultSteps
     /\ cancelMark = 2
     /\ \A s \in DOMAIN results : results[s].error_message \in { None, CancelMsg })
    =>
    /\ GetStatus.completed_steps =
          2 + (IF InFlight \in DOMAIN results /\ results[InFlight].status = COMPLETED
               THEN 1 ELSE 0)
    /\ InFlight \in DOMAIN results =>
          results[InFlight].status \in { CANCELLED, COMPLETED }
    /\ \A j \in 4..Len(DefaultSteps) : DefaultSteps[j] \notin DOMAIN results

\* C9: a cancel() issued while a step is past its own cancellation check does
\* not alter that step's result: the call changes no result and does not move
\* the executing thread, the step ends COMPLETED or FAILED as its computation
\* decides, and at most the one step in flight completes after the cancel
C9_Cooperative ==
    /\ [] (cancelMark >= 0 => CompletedInRun <= cancelMark + 1)
    /\ [][ /\ cancelled' # cancelled =>
                 (results' = results /\ pc' = pc /\ fate' = fate /\ cur' = cur)
           /\ (pc = "step_body" /\ pc' # pc) =>
                 /\ results'[cur].status = IF Succeeds(fate) THEN COMPLETED ELSE FAILED
                 /\ results'[cur].error_message # CancelMsg ]_vars

\* C9 witness: run() was cancelled while a step was past its check; that step
\* completed after the cancel, and run() stopped at the next boundary
C9_Witness ==
    /\ inRun /\ cancelled
    /\ pc = "run_returned"
    /\ cancelMark >= 0
    /\ CompletedInRun = cancelMark + 1
    /\ idx <= Len(runSteps)

\* C10: every cancel() leaves the flag set and the result mapping as it was; a
\* cancel() on a processor whose flag is already set changes neither
C10_CancelIdempotent ==
    [][ cancelCalls' # cancelCalls =>
          /\ cancelled'
          /\ results' = results
          /\ cancelled => cancelled' = cancelled ]_vars

\* C10 witness: cancel() was called twice on a processor holding results
C10_Witness ==
    /\ cancelCalls >= 2
    /\ cancelled
    /\ DOMAIN results # {}

\* run() has returned after executing its whole list, with no cancellation
RunCompleted ==
    /\ inRun
    /\ pc = "run_returned"
    /\ idx > Len(runSteps)
    /\ ~cancelled

\* C11: cancelling a run after it has completed is a no-op: a cancel() issued
\* once run() has returned from its whole list leaves the get_status() snapshot
\* (its cancelled field included) and the service's task entry as they were
C11_CancelAfterCompletionNoOp ==
    [][ (RunCompleted /\ cancelCalls' # cancelCalls) =>
          (GetStatus' = GetStatus /\ task' = task) ]_vars

\* the steps whose result is RUNNING
RunningSteps == { s \in DOMAIN results : results[s].status = RUNNING }

\* C12: one run executes its steps strictly sequentially: at every moment at
\* most one step result is RUNNING, and _start_step is executed only when every
\* step started before has reached a terminal status
C12_Sequential ==
    /\ [] (Cardinality(RunningSteps) <= 1)
    /\ [] (pc = "step_start" => RunningSteps = {})
    /\ [][ (pc = "step_start" /\ pc' # pc) =>
             (RunningSteps' = { cur } /\ 
              \A s \in Range(started) : results'[s].status \in Terminal \/ s = cur) ]_vars

\* C12 witness: run() has started its third step; the two steps started before
\* it are terminal and it is the only RUNNING one
C12_Witness ==
    /\ inRun
    /\ pc \in { "step_check", "step_body" }
    /\ Len(started) >= 3
    /\ RunningSteps = { cur }
    /\ \A j \in 1..2 : results[started[j]].status \in Terminal

IsPrefix(p, q) == Len(p) <= Len(q) /\ p = SubSeq(q, 1, Len(p))

DuplicateFree(seq) == \A i, j \in 1..Len(seq) : seq[i] = seq[j] => i = j

\* C13: during and after run() over a duplicate-free step list on a fresh
\* processor, the keys of the result mapping, in the mapping's order, are a
\* prefix of that step list
C13_ResultsArePrefix ==
    (inRun /\ freshRun /\ DuplicateFree(runSteps)) =>
        /\ IsPrefix(keyOrder, runSteps)
        /\ DOMAIN results = Range(keyOrder)

\* C13 witness: a ten-step run() on a fresh processor has ended at its fourth
\* step; the mapping holds the first four steps of the list, in list order
C13_Witness ==
    /\ inRun /\ freshRun
    /\ pc = "run_raised"
    /\ Len(runSteps) = 10
    /\ keyOrder = SubSeq(runSteps, 1, 4)
    /\ DOMAIN results = Range(keyOrder)

\* C14: run(steps) starts the steps of the given list, in the order given, and
\* no others (all of them unless a failure or a cancellation cuts the run
\* short); run() with no argument uses the ten steps of ProcessingStep in
\* declaration order, data download first and visualization last
C14_StartsGivenList ==
    /\ Len(ProcessingStep) = 10
    /\ ProcessingStep[1] = DOWNLOAD_DATA
    /\ ProcessingStep[10] = GENERATE_VISUALIZATIONS
    /\ inRun =>
          /\ runSteps = IF runArg.given THEN runArg.steps ELSE ProcessingStep
          /\ IsPrefix(started, runSteps)
          /\ (pc = "run_returned" /\ ~cancelled) => started = runSteps

\* C14 witness: run() without an argument has returned after starting the ten
\* steps in declaration order
C14_Witness ==
    /\ inRun
    /\ ~runArg.given
    /\ pc = "run_returned"
    /\ started = ProcessingStep
    /\ results[GENERATE_VISUALIZATIONS].status = COMPLETED

Last(seq) == seq[Len(seq)]

TerminalValues == { 100, -1 }

\* a step method is between its _start_step and its _complete_step / _fail_step
Executing == pc \in { "step_check", "step_body" }

\* the values reported for one execution, the terminal one (if any) left out
Intermediate(seq) ==
    IF seq # << >> /\ Last(seq) \in TerminalValues
    THEN SubSeq(seq, 1, Len(seq) - 1)
    ELSE seq

\* the first is 0, then strictly increasing values within [0,100], none of
\* them terminal
C15_Shape ==
    emitted # << >> =>
        /\ emitted[1] = 0
        /\ \A i \in 1..Len(Intermediate(emitted)) :
              /\ emitted[i] \in 0..100
              /\ emitted[i] \notin TerminalValues
              /\ i > 1 => emitted[i - 1] < emitted[i]
        /\ Executing => Last(emitted) \notin TerminalValues

\* C15: for each execution of a step the progress notifications are emitted in
\* order: first 0, then strictly increasing values within [0,100], last exactly
\* one terminal value, 100 iff the step ended COMPLETED and -1 iff it ended
\* FAILED, and nothing for that execution after the terminal value
C15_ProgressProtocol ==
    /\ [] C15_Shape
    /\ [][ /\ (Executing /\ ~Executing') =>
                /\ IsPrefix(emitted, emitted')
                /\ Len(emitted') > Len(emitted)
                /\ Last(emitted') = 100 <=> results'[cur].status = COMPLETED
                /\ Last(emitted') = -1 <=> results'[cur].status = FAILED
                /\ results'[cur].status \in { COMPLETED, FAILED }
           /\ (emitted' # emitted /\ ~Executing) =>
                (emitted' = << 0 >> \/ (emitted' = << >> /\ calls' # calls)) ]_vars

\* C15 witness: a step has failed after reporting intermediate progress
C15_Witness ==
    /\ pc = "step_raised"
    /\ Len(emitted) >= 4
    /\ Last(emitted) = -1
    /\ results[cur].status = FAILED

IsSuffix(p, q) ==
    Len(p) <= Len(q) /\ p = SubSeq(q, Len(q) - Len(p) + 1, Len(q))

\* the executing thread takes a step that calls _report_progress
StepNotifies == pc' # pc /\ (pc = "step_start" \/ (Executing /\ ~Executing'))

\* the values and the lines that step passes to the notification code
NewValues ==
    IF pc = "step_start" THEN emitted'
    ELSE SubSeq(emitted', Len(emitted) + 1, Len(emitted'))
NewLines ==
    IF pc = "step_start" THEN emittedLog'
    ELSE SubSeq(emittedLog', Len(emittedLog) + 1, Len(emittedLog'))

\* every registered observer, whatever the observers before it did, is called
\* with each value and each line of the step
AllNotified ==
    /\ StepNotifies =>
          /\ NewValues # << >>
          /\ \A i \in 1..Len(callbacks) :
                seen'[i] = (IF pc = "step_start" THEN << >> ELSE seen[i]) \o NewValues
          /\ \A i \in 1..Len(logCallbacks) :
                seenLog'[i] =
                    (IF pc = "step_start" THEN << >> ELSE seenLog[i]) \o NewLines
    /\ cancelCalls' # cancelCalls =>
          \A i \in 1..Len(logCallbacks) : seenLog'[i] = Append(seenLog[i], CancelLine)

\* the steps end as their own computation decides, in the order of the list
PipelineUndisturbed ==
    /\ (pc = "step_start" /\ pc' # pc) => results'[cur].status = RUNNING
    /\ (pc = "step_body" /\ pc' # pc) =>
          /\ results'[cur].status = IF Succeeds(fate) THEN COMPLETED ELSE FAILED
          /\ \A s \in DOMAIN results \ { cur } : results'[s] = results[s]
    /\ (pc = "step_check" /\ pc' # pc /\ ~cancelled) => results' = results
    /\ (callbacks' # callbacks \/ logCallbacks' # logCallbacks) =>
          (results' = results /\ pc' = pc /\ started' = started)

\* C16: an exception raised by a registered progress or log observer is caught
\* inside the notification: the pipeline goes on as without it (no step result
\* and no step order changes), and the observers registered after the failing
\* one are still called with the same event
C16_ObserverFailureContained ==
    /\ [] (inRun => IsPrefix(started, runSteps))
    /\ [] (pc \notin { "run_raised", "step_raised" } \/
                results[cur].error_message \in { CancelMsg, CallFirstMsg, ErrorMsg })
    /\ [][ AllNotified /\ PipelineUndisturbed ]_vars

\* C16 witness: a raising progress observer is registered before a recording
\* one; run() has returned with both steps of its list completed and the
\* recording observer was called with every value of the last step
C16_Witness ==
    /\ callbacks = << Raiser, Recorder >>
    /\ pc = "run_returned"
    /\ Len(runSteps) = 2
    /\ started = runSteps
    /\ \A s \in Range(runSteps) : results[s].status = COMPLETED
    /\ Len(emitted) >= 3
    /\ seen[2] = emitted

\* what each observer was called with is the tail of what was emitted, in the
\* order emitted; an observer registered earlier has been called at least as
\* often as one registered later
C17_InOrder ==
    /\ Len(seen) = Len(callbacks)
    /\ Len(seenLog) = Len(logCallbacks)
    /\ \A i \in 1..Len(callbacks) : IsSuffix(seen[i], emitted)
    /\ \A i \in 1..Len(logCallbacks) : IsSuffix(seenLog[i], emittedLog)
    /\ \A i, j \in 1..Len(callbacks) : i < j => Len(seen[i]) >= Len(seen[j])
    /\ \A i, j \in 1..Len(logCallbacks) : i < j => Len(seenLog[i]) >= Len(seenLog[j])

\* a registration call appends one observer and leaves the others in place
C17_RegistrationAddsOne ==
    /\ callbacks' # callbacks =>
          /\ Len(callbacks') = Len(callbacks) + 1
          /\ IsPrefix(callbacks, callbacks')
          /\ logCallbacks' = logCallbacks
          /\ seen' = Append(seen, << >>)
    /\ logCallbacks' # logCallbacks =>
          /\ Len(logCallbacks') = Len(logCallbacks) + 1
          /\ IsPrefix(logCallbacks, logCallbacks')
          /\ callbacks' = callbacks
          /\ seenLog' = Append(seenLog, << >>)

\* C17: every observer registered through on_progress / on_log receives every
\* notification emitted after its registration, in the order emitted; for each
\* notification the observers are called in registration order; each
\* registration call adds exactly one observer
C17_ObserversNotifiedInOrder ==
    /\ [] C17_InOrder
    /\ [][ /\ AllNotified
           /\ StepNotifies => invoked' = [ i \in 1..Len(callbacks) |-> i ]
           /\ C17_RegistrationAddsOne ]_vars

\* C17 witness: a second progress observer registered while a step was
\* executing; it was called with the values reported after that, the first
\* observer with all of them, the first before the second
C17_Witness ==
    /\ Len(callbacks) = 2
    /\ invoked = << 1, 2 >>
    /\ ~Executing
    /\ Len(emitted) >= 3
    /\ seen[1] = emitted
    /\ seen[2] = SubSeq(emitted, 2, Len(emitted))

\* the steps of the enumeration whose current result has status st
StepsWith(st) ==
    { i \in 1..Len(ProcessingStep) :
        /\ ProcessingStep[i] \in DOMAIN results
        /\ results[ProcessingStep[i]].status = st }

\* C18: in every reachable state get_status() reports total_steps = 10,
\* completed_steps = the number of step results currently COMPLETED,
\* failed_steps = the number currently FAILED, cancelled = the flag, and one
\* results entry per started step; on a fresh processor these are 10, 0, 0,
\* false and an empty mapping
C18_StatusReport ==
    LET status == GetStatus
    IN  /\ status.total_steps = 10
        /\ status.completed_steps = Cardinality(StepsWith(COMPLETED))
        /\ status.failed_steps = Cardinality(StepsWith(FAILED))
        /\ status.cancelled = cancelled
        /\ DOMAIN status.results = Range(keyOrder)
        /\ \A s \in Range(keyOrder) : status.results[s].status = results[s].status
        /\ (calls = 0 /\ cancelCalls = 0) =>
              status = [ total_steps |-> 10, completed_steps |-> 0,
                         failed_steps |-> 0, cancelled |-> FALSE,
                         results |-> << >> ]

\* C18 witness: the flag is set while the mapping holds a completed, a failed
\* and a running step
C18_Witness ==
    /\ cancelled
    /\ GetStatus.completed_steps >= 1
    /\ GetStatus.failed_steps >= 1
    /\ RunningSteps # {}
    /\ Cardinality(DOMAIN GetStatus.results) >= 3

\* C19: get_status() is read-only: a call in any state, also while a step is
\* RUNNING, leaves the result mapping, every step's status and the flag as they
\* were and does not move the executing thread, and the call can be made (and
\* answers from the current fields) in every state, without waiting for the
\* step in flight
C19_GetStatusReadOnly ==
    /\ [] ENABLED GetStatusCall
    /\ [][ polled' # polled =>
             /\ polled' = GetStatus
             /\ results' = results
             /\ keyOrder' = keyOrder
             /\ cancelled' = cancelled
             /\ pc' = pc /\ cur' = cur /\ fate' = fate ]_vars

\* C19 witness: get_status() has answered while a step is RUNNING, and the
\* step is still RUNNING
C19_Witness ==
    /\ Executing
    /\ polled = GetStatus
    /\ polled.results[cur].status = RUNNING
    /\ results[cur].status = RUNNING

\* a step of the cancel_task request handler
HandlerStep == cpc' # cpc

\* C20: all mutation of a run's state is confined to that run's worker: no
\* step of a request handler writes the task's registry entry, the processor's
\* flag or the processor's results
C20_OnlyWorkerWrites ==
    [][ HandlerStep =>
          (task' = task /\ cancelled' = cancelled /\ results' = results) ]_vars

\* the configuration holds no burst id
NoBursts == \A i \in 1..Len(bursts) : bursts[i] \in BlankEntries

\* C21: with an empty burst list, or one of blank entries only, download_data
\* fails at once: the step ends FAILED with an error message and no progress
\* value between 0 and -1 (nothing was downloaded), it is started once per
\* call, and run() aborts without starting a later step
C21_EmptyBurstListFails ==
    /\ [] (NoBursts =>
            /\ (DOWNLOAD_DATA \in DOMAIN results
                    /\ results[DOWNLOAD_DATA].status # RUNNING) =>
                  /\ results[DOWNLOAD_DATA].status = FAILED
                  /\ results[DOWNLOAD_DATA].error_message \in { NoBurstsMsg, CancelMsg }
                  /\ cancelCalls = 0 =>
                        results[DOWNLOAD_DATA].error_message = NoBurstsMsg
                  /\ results[DOWNLOAD_DATA].gen <= calls
            /\ (cur = DOWNLOAD_DATA /\ pc \in Quiescent) => emitted = << 0, -1 >>
            /\ (inRun /\ ~runArg.given) =>
                  /\ IsPrefix(started, << DOWNLOAD_DATA >>)
                  /\ DOMAIN results \subseteq
                        { DOWNLOAD_DATA } \cup (IF freshRun THEN {} ELSE Steps)
                  /\ pc \in Quiescent =>
                        (pc = "run_raised" \/ (cancelled /\ started = << >>)))
    /\ [][ (NoBursts /\ pc = "step_body" /\ cur = DOWNLOAD_DATA /\ pc' # pc) =>
             (pc' \in { "run_raised", "step_raised" } /\ fate = "fail_config") ]_vars

\* C21 witness: run() on a processor configured with blank entries only has
\* been aborted by its first step
C21_Witness ==
    /\ bursts = << " ", Blank >>
    /\ inRun /\ ~runArg.given
    /\ pc = "run_raised"
    /\ started = << DOWNLOAD_DATA >>
    /\ results[DOWNLOAD_DATA].status = FAILED
    /\ results[DOWNLOAD_DATA].error_message = NoBurstsMsg
    /\ emitted = << 0, -1 >>
    /\ DOMAIN results = { DOWNLOAD_DATA }

(* ------------------------------------------------------------------ *)
(* Phase rasters.  A raster is a sequence of rows of equal length; a   *)
(* phase is an integer multiple of pi/4, a coherence a number of       *)
(* tenths.  An output pixel is a record: NaN, or a defined value.      *)
(* ------------------------------------------------------------------ *)
\* largest number of pixels of the rasters drawn as inputs
MaxPixels == 4
\* side of the square ramp raster
RampSize == 10

\* np.pi, in units of pi/4
PI == 4
TWO_PI == 2 * PI
\* the literal 0.3 the unwrappers compare the coherence with, in tenths
CoherenceThreshold == 3

PhaseValues == { -3, 0, 3 }
CoherenceValues == { 2, CoherenceThreshold, 9 }
OrigValues == { -5, -3, 0, 2, 5, 7 }
HighCoherence == 9

\* an array holds its values: a function written [i \in 1..n |-> e] is
\* evaluated once, when the array is made
Array(f) == f \o << >>

Shapes == { s \in (1..MaxPixels) \X (1..MaxPixels) : s[1] * s[2] <= MaxPixels }
Rasters(h, w, V) == [ 1..h -> [ 1..w -> V ] ]
Full(h, w, v) == Array([ i \in 1..h |-> Array([ j \in 1..w |-> v ]) ])
Height(r) == Len(r)
Width(r) == Len(r[1])

NaN == [def |-> FALSE, v |-> 0]
Defined(v) == [def |-> TRUE, v |-> v]

\* the result of a call: an exception, or the returned raster
Raised == [raised |-> TRUE, out |-> << >>]
Returned(out) == [raised |-> FALSE, out |-> out]

Min(a, b) == IF a <= b THEN a ELSE b

\* variant: the gradient is integrated as it is
Wrap_Identity(d) == d

\* np.angle(np.exp(1j * d)), arctan2(sin(d), cos(d)): d modulo 2*pi in
\* [-pi, pi]; a d of exactly pi or -pi keeps its sign
Wrap(d) ==
    LET m == ((d + PI) % TWO_PI) - PI
    IN  IF m = -PI /\ d > 0 THEN PI ELSE m

\* np.angle of a sample whose argument is v: v modulo 2*pi in (-pi, pi]
WrapPhase(v) == ((v + PI - 1) % TWO_PI) - PI + 1
WrapRaster(r) ==
    [ i \in 1..Height(r) |-> [ j \in 1..Width(r) |-> WrapPhase(r[i][j]) ] ]

\* np.diff(phase, axis=0) and np.diff(phase, axis=1), re-wrapped
GradientY(phase) ==
    [ i \in 1..(Height(phase) - 1) |->
        [ j \in 1..Width(phase) |-> Wrap(phase[i + 1][j] - phase[i][j]) ] ]
GradientX(phase) ==
    [ i \in 1..Height(phase) |->
        [ j \in 1..(Width(phase) - 1) |-> Wrap(phase[i][j + 1] - phase[i][j]) ] ]

RECURSIVE SumTo(_, _)
SumTo(s, k) == IF k = 0 THEN 0 ELSE SumTo(s, k - 1) + s[k]
\* np.cumsum
CumSum(s) == [ k \in 1..Len(s) |-> SumTo(s, k) ]

\* variant: a coherence equal to the threshold is masked too
BelowThreshold_Inclusive(c) == c <= CoherenceThreshold

\* coherence < 0.3
BelowThreshold(c) == c < CoherenceThreshold

\* unwrapped[coherence < 0.3] = np.nan
Mask(unwrapped, coherence) ==
    [ i \in 1..Height(unwrapped) |-> [ j \in 1..Width(unwrapped) |->
        IF BelowThreshold(coherence[i][j]) THEN NaN ELSE Defined(unwrapped[i][j]) ] ]

\* variant: every row integrates the column gradients of the first row
GradientRow_First(i, n) == 0

\* min(i, dx.shape[0] - 1): the row of dx that row i integrates (from 0)
GradientRow(i, n) == Min(i, n - 1)

\* process_real_sar.unwrap_phase
UnwrapPhase(phase, coherence) ==
    LET h == Height(phase)
        w == Width(phase)
        dy == GradientY(phase)
        dx == GradientX(phase)
        dy0 == [ i \in 1..(h - 1) |-> dy[i][1] ]
        first == [ i \in 1..h |-> SumTo(dy0, i - 1) ]
        row(i) == CumSum(dx[GradientRow(i - 1, h) + 1])
        unwrapped ==
            [ i \in 1..h |-> [ j \in 1..w |->
                IF j = 1 THEN first[i] ELSE first[i] + row(i)[j - 1] ] ]
    IN  Returned(Mask(unwrapped, coherence))

\* a + b of two one-dimensional arrays assigned to a row of width w:
\* arrays of different lengths broadcast only if one has length 1, and the
\* sum must fit the row
RowSumFits(a, b, w) ==
    /\ Len(a) = Len(b) \/ Len(a) = 1 \/ Len(b) = 1
    /\ (IF Len(a) >= Len(b) THEN Len(a) ELSE Len(b)) \in { 1, w }

\* real_insar_processor.simple_unwrap
SimpleUnwrap(phase, coherence) ==
    LET h == Height(phase)
        w == Width(phase)
        dy == GradientY(phase)
        dx == GradientX(phase)
        row0 == CumSum(<< 0 >> \o dx[1])
        \* np.concatenate([[dy[i-1, 0]], dy[i-1, :]])
        step(i) == << dy[i - 1][1] >> \o dy[i - 1]
        RECURSIVE rows(_)
        rows(i) ==
            IF i = 1 THEN << row0 >>
            ELSE LET above == rows(i - 1)
                 IN  above \o << [ j \in 1..w |-> above[i - 1][j] + step(i)[j] ] >>
    IN  IF \E i \in 2..h : ~RowSumFits(row0, step(i), w)
        THEN Raised
        ELSE Returned(Mask(rows(h), coherence))

\* a sample of the phase file: a complex number (real, imag)
Sample(re, im) == [re |-> re, im |-> im]
Sign(x) == IF x > 0 THEN 1 ELSE IF x < 0 THEN -1 ELSE 0

\* the sample written for a phase of v: exp(1j * v), scaled to integers
Direction(v) ==
    LET k == v % TWO_PI
    IN  CASE k = 0 -> Sample(1, 0)
          [] k = 1 -> Sample(1, 1)
          [] k = 2 -> Sample(0, 1)
          [] k = 3 -> Sample(-1, 1)
          [] k = 4 -> Sample(-1, 0)
          [] k = 5 -> Sample(-1, -1)
          [] k = 6 -> Sample(0, -1)
          [] k = 7 -> Sample(1, -1)
PhaseFile(r) ==
    [ i \in 1..Height(r) |-> [ j \in 1..Width(r) |-> Direction(r[i][j]) ] ]

\* np.arctan2(imag, real) of a sample on one of the eight directions
Arctan2(im, re) ==
    IF im = 0 THEN (IF re >= 0 THEN 0 ELSE PI)
    ELSE IF re = 0 THEN Sign(im) * (PI \div 2)
    ELSE IF re > 0 THEN Sign(im) * (PI \div 4)
    ELSE Sign(im) * (3 * (PI \div 4))

\* visualize_insar.unwrap_phase
VisUnwrapPhase(file, width, height) ==
    LET phase == [ i \in 1..height |-> [ j \in 1..width |->
                     Arctan2(file[i][j].im, file[i][j].re) ] ]
        RECURSIVE firstRow(_)
        firstRow(x) ==
            IF x = 1 THEN phase[1][1]
            ELSE firstRow(x - 1) + Wrap(phase[1][x] - phase[1][x - 1])
        RECURSIVE at(_, _)
        at(y, x) ==
            IF y = 1 THEN firstRow(x)
            ELSE at(y - 1, x) + Wrap(phase[y][x] - phase[y - 1][x])
    IN  Returned([ i \in 1..height |-> [ j \in 1..width |-> Defined(at(i, j)) ] ])

\* a ramp down the rows: row i (from 0) holds a + b * i in every column
Ramp(a, b) ==
    [ i \in 1..RampSize |-> [ j \in 1..RampSize |-> a + b * (i - 1) ] ]
Ramps == { Ramp(a, 1) : a \in { -1, 0 } }

\* the rasters a client wraps before unwrapping them
Originals ==
    UNION { Rasters(s[1], s[2], OrigValues) : s \in Shapes } \cup Ramps

(* ------------------------------------------------------------------ *)
(* UnwrapSpec: one call of an unwrapper on a raster drawn from the     *)
(* input sets                                                          *)
(* ------------------------------------------------------------------ *)
UnwrapPhaseCall ==
    /\ call = NoCall
    /\ \E s \in Shapes :
       \E phase \in Rasters(s[1], s[2], PhaseValues),
          coherence \in Rasters(s[1], s[2], CoherenceValues) :
          /\ call' = [fn |-> "unwrap_phase", phase |-> phase,
                      coherence |-> coherence]
          /\ ret' = UnwrapPhase(phase, coherence)
    /\ UNCHANGED << pipeVars, configVars, apiVars >>

SimpleUnwrapCall ==
    /\ call = NoCall
    /\ \E s \in Shapes :
       \E phase \in Rasters(s[1], s[2], PhaseValues),
          coherence \in Rasters(s[1], s[2], CoherenceValues) :
          /\ call' = [fn |-> "simple_unwrap", phase |-> phase,
                      coherence |-> coherence]
          /\ ret' = SimpleUnwrap(phase, coherence)
    /\ UNCHANGED << pipeVars, configVars, apiVars >>

\* a raster is wrapped into (-pi, pi] and handed to unwrap_phase with a
\* coherence above the threshold everywhere
WrapUnwrapCall ==
    /\ call = NoCall
    /\ \E orig \in Originals :
          LET phase == WrapRaster(orig)
              coherence == Full(Height(orig), Width(orig), HighCoherence)
          IN  /\ call' = [fn |-> "unwrap_phase", orig |-> orig,
                          phase |-> phase, coherence |-> coherence]
              /\ ret' = UnwrapPhase(phase, coherence)
    /\ UNCHANGED << pipeVars, configVars, apiVars >>

\* a raster is written as a phase file and handed to
\* visualize_insar.unwrap_phase
VisUnwrapCall ==
    /\ call = NoCall
    /\ \E orig \in Originals :
          LET file == PhaseFile(orig)
          IN  /\ call' = [fn |-> "visualize_insar.unwrap_phase", orig |-> orig,
                          phase |-> WrapRaster(orig), file |-> file]
              /\ ret' = VisUnwrapPhase(file, Width(orig), Height(orig))
    /\ UNCHANGED << pipeVars, configVars, apiVars >>

UnwrapNext ==
    \/ UnwrapPhaseCall
    \/ SimpleUnwrapCall
    \/ WrapUnwrapCall
    \/ VisUnwrapCall

UnwrapSpec == Init /\ [][UnwrapNext]_vars

\* the call in flight is one of an unwrapper that takes a coherence map
MaskingCall == call # NoCall /\ call.fn \in { "unwrap_phase", "simple_unwrap" }
UnwrapCall == call # NoCall /\ "phase" \in DOMAIN call
Pixels(r) == { << i, j >> : i \in 1..Height(r), j \in 1..Width(r) }

\* C22: every pixel of an unwrapper's output is NaN if the coherence at the
\* pixel is below the threshold 0.3, and defined otherwise
C22_MaskedIffBelowThreshold ==
    (MaskingCall /\ ~ret.raised) =>
        \A p \in Pixels(call.phase) :
            ret.out[p[1]][p[2]].def <=> call.coherence[p[1]][p[2]] >= CoherenceThreshold

\* C22 witness: unwrap_phase has returned a raster with a masked pixel, a
\* pixel at the threshold and a pixel above it
C22_Witness ==
    /\ MaskingCall /\ ~ret.raised
    /\ call.fn = "unwrap_phase"
    /\ call.coherence = << << 2, CoherenceThreshold >>, << 9, 2 >> >>
    /\ ~ret.out[1][1].def /\ ret.out[1][2].def
    /\ ret.out[2][1].def /\ ~ret.out[2][2].def

\* C23: for every raster of height h >= 1 and width w >= 1 and a coherence
\* map of its shape, each unwrapper returns, without raising, a raster of
\* the shape of its input
C23_SameShapeNoRaise ==
    MaskingCall =>
        /\ ~ret.raised
        /\ Height(ret.out) = Height(call.phase)
        /\ \A i \in 1..Height(ret.out) : Len(ret.out[i]) = Width(call.phase)

\* the call in flight unwraps a wrapped ramp with process_real_sar.unwrap_phase
RampCall ==
    /\ call # NoCall
    /\ call.fn = "unwrap_phase"
    /\ "orig" \in DOMAIN call
    /\ call.orig \in Ramps
\* the wrapped values of rows i-1 and i (from 0) differ by the increment
\* less 2*pi
JumpsAt(orig, phase, i) ==
    phase[i + 1][1] - phase[i][1] = (orig[i + 1][1] - orig[i][1]) - TWO_PI

\* C24: unwrap_phase turns a wrapped ramp down the rows into a continuous
\* ramp: every pixel is defined and every pair of vertically adjacent output
\* pixels, the pair across the 2*pi jump of the input included, differs by the
\* ramp's increment per row
C24_RampContinuous ==
    RampCall =>
        /\ ~ret.raised
        /\ \A i \in 1..(RampSize - 1), j \in 1..RampSize :
              /\ ret.out[i][j].def /\ ret.out[i + 1][j].def
              /\ ret.out[i + 1][j].v - ret.out[i][j].v
                    = call.orig[i + 1][j] - call.orig[i][j]

\* C24 witness: the ramp unwrapped has its only 2*pi jump at row 5, and the
\* output steps from row 4 to row 5 by the increment
C24_Witness ==
    /\ RampCall /\ ~ret.raised
    /\ JumpsAt(call.orig, call.phase, 5)
    /\ \A i \in (1..(RampSize - 1)) \ { 5 } : ~JumpsAt(call.orig, call.phase, i)
    /\ ret.out[6][1].v - ret.out[5][1].v = 1

\* the call in flight unwraps a raster of one pixel whose coherence, where the
\* unwrapper takes one, is above the threshold
SinglePixelCall ==
    /\ UnwrapCall
    /\ Height(call.phase) = 1 /\ Width(call.phase) = 1
    /\ "coherence" \in DOMAIN call => call.coherence[1][1] > CoherenceThreshold

\* C25: unwrapping a raster of one pixel whose coherence is above the
\* threshold returns the pixel's input phase
C25_SinglePixelUnchanged ==
    SinglePixelCall =>
        /\ ~ret.raised
        /\ ret.out = << << Defined(call.phase[1][1]) >> >>

Abs(x) == IF x < 0 THEN -x ELSE x
\* every horizontally and vertically adjacent pair of r differs by less than pi
Continuous(r) ==
    /\ \A i \in 1..(Height(r) - 1), j \in 1..Width(r) :
          Abs(r[i + 1][j] - r[i][j]) < PI
    /\ \A i \in 1..Height(r), j \in 1..(Width(r) - 1) :
          Abs(r[i][j + 1] - r[i][j]) < PI
\* the call in flight unwraps the wrapped form of a continuous raster
RoundTripCall ==
    /\ call # NoCall
    /\ "orig" \in DOMAIN call
    /\ Continuous(call.orig)

\* C26: wrapping a continuous raster into (-pi, pi] and unwrapping it, with a
\* coherence above the threshold everywhere, reproduces the raster up to one
\* additive constant: output minus original is the same at every pixel
C26_RoundTripUpToConstant ==
    RoundTripCall =>
        /\ ~ret.raised
        /\ \A p \in Pixels(call.orig) :
              /\ ret.out[p[1]][p[2]].def
              /\ ret.out[p[1]][p[2]].v - call.orig[p[1]][p[2]]
                    = ret.out[1][1].v - call.orig[1][1]

\* C26 witness: unwrap_phase has unwrapped a continuous 2x2 raster whose
\* wrapped form differs from it at some pixels only
C26_Witness ==
    /\ RoundTripCall /\ ~ret.raised
    /\ call.fn = "unwrap_phase"
    /\ call.orig = << << 2, 5 >>, << 5, 7 >> >>
    /\ call.phase = << << 2, -3 >>, << -3, -1 >> >>
    /\ ret.out = << << Defined(0), Defined(3) >>, << Defined(3), Defined(5) >> >>

(* ------------------------------------------------------------------ *)
(* Complex rasters.  A sample is a Gaussian integer ("fin"), a finite  *)
(* value so large that its squared magnitude overflows ("huge"), or    *)
(* NaN.  A float is a class: a finite integer, a finite huge value,    *)
(* inf, NaN, or the 1e-10 added to a zero denominator.  The kernel's   *)
(* weights 1/25 are common to numerator and denominator and are left   *)
(* out; a coherence is kept as the ratio n/d of its square, or NaN.    *)
(* ------------------------------------------------------------------ *)
\* largest side of the complex rasters drawn as inputs
MaxSide == 4
\* smallest side: a 5x5 window reflects once into a side of two or more
MinSide == 2

Cplx(re, im, k) == [re |-> re, im |-> im, k |-> k]
ZeroSample == Cplx(0, 0, "fin")
HugeSample == Cplx(1, 0, "huge")
NaNSample == Cplx(0, 0, "nan")
\* the values of a reference raster, and those of a secondary raster
ReferenceValues == { ZeroSample, Cplx(1, 0, "fin"), HugeSample }
SampleValues == ReferenceValues \cup { Cplx(0, 1, "fin"), NaNSample }

IfgShapes == (MinSide..MaxSide) \X (MinSide..MaxSide)
\* the raster that holds bg everywhere but at its first pixel, which holds v
Spot(h, w, v, bg) ==
    Array([ i \in 1..h |->
              Array([ j \in 1..w |-> IF i = 1 /\ j = 1 THEN v ELSE bg ]) ])

FIN(v) == [k |-> "fin", v |-> v]
HUGE == [k |-> "huge", v |-> 0]
INF == [k |-> "inf", v |-> 0]
NAN == [k |-> "nan", v |-> 0]
EPS == [k |-> "eps", v |-> 0]

Ratio(n, d) == [nan |-> FALSE, n |-> n, d |-> d]
NaNCoherence == [nan |-> TRUE, n |-> 0, d |-> 1]
ZeroCoherence == Ratio(0, 1)
OneCoherence == Ratio(1, 1)

\* slc1 * np.conj(slc2) at one pixel
\* a product with NaN is NaN; a product of a finite value with zero is zero;
\* the product of two huge values overflows
Interfere(a, b) ==
    IF a.k = "nan" \/ b.k = "nan"
    THEN Cplx(0, 0, "nan")
    ELSE IF a = ZeroSample \/ b = ZeroSample
    THEN Cplx(0, 0, "fin")
    ELSE Cplx(a.re * b.re + a.im * b.im,
              a.im * b.re - a.re * b.im,
              IF a.k = "huge" /\ b.k = "huge" THEN "inf"
              ELSE IF a.k = "huge" \/ b.k = "huge" THEN "huge" ELSE "fin")

\* np.angle(ifg) at one pixel
Angle(p) == IF p.k = "nan" THEN NaN ELSE Defined(Arctan2(p.im, p.re))

\* boundary='symm': the index, from 1, that x stands for in a side of n
Reflect(x, n) == IF x < 1 THEN 1 - x ELSE IF x > n THEN 2 * n + 1 - x ELSE x

\* convolve2d(q, np.ones((5, 5)), mode='same', boundary='symm'): at each
\* pixel the sum of q under the 5x5 window centred on it
Box(q) ==
    LET h == Height(q)
        w == Width(q)
        rows == Array([ i \in 1..h |-> Array([ j \in 1..w |->
                    q[i][Reflect(j - 2, w)] + q[i][Reflect(j - 1, w)] + q[i][j]
                    + q[i][Reflect(j + 1, w)] + q[i][Reflect(j + 2, w)] ]) ])
    IN  Array([ i \in 1..h |-> Array([ j \in 1..w |->
            rows[Reflect(i - 2, h)][j] + rows[Reflect(i - 1, h)][j] + rows[i][j]
            + rows[Reflect(i + 1, h)][j] + rows[Reflect(i + 2, h)][j] ]) ])

Indicator(b) == IF b THEN 1 ELSE 0

\* |convolve2d(ifg, kernel)| squared at one pixel, from the window's sums of
\* the real parts, the imaginary parts, and its numbers of NaN, inf and huge
\* terms
WindowNumerator(re, im, nans, infs, huges) ==
    IF nans > 0 THEN NAN
    ELSE IF infs > 0 THEN INF
    ELSE IF huges > 0 THEN HUGE
    ELSE FIN(re * re + im * im)

\* convolve2d(np.abs(slc)**2, kernel) at one pixel, from the window's sum of
\* the squared magnitudes and its numbers of NaN and huge samples
WindowPower(power, nans, huges) ==
    IF nans > 0 THEN NAN ELSE IF huges > 0 THEN INF ELSE FIN(power)

\* den1 * den2, squared
Times(a, b) ==
    IF a.k = "nan" \/ b.k = "nan" THEN NAN
    ELSE IF a.k = "inf" \/ b.k = "inf"
    THEN (IF a = FIN(0) \/ b = FIN(0) THEN NAN ELSE INF)
    ELSE FIN(a.v * b.v)

\* variant: nothing is added to the denominator
AddEps_Nothing(x) == x

\* ... + 1e-10: it shows in a denominator of zero only
AddEps(x) == IF x = FIN(0) THEN EPS ELSE x

\* num / den
Divide(num, den) ==
    CASE num.k = "nan" \/ den.k = "nan" -> NaNCoherence
      [] den.k = "inf" /\ num.k # "nan" ->
            IF num.k = "inf" THEN NaNCoherence ELSE ZeroCoherence
      [] den.k = "eps" /\ num.k # "nan" ->
            IF num = FIN(0) THEN ZeroCoherence ELSE Ratio(2, 1)
      [] den.k = "fin" /\ num.k # "nan" ->
            IF den.v = 0
            THEN (IF num = FIN(0) THEN NaNCoherence ELSE Ratio(2, 1))
            ELSE IF num.k = "fin" THEN Ratio(num.v, den.v) ELSE Ratio(2, 1)

\* np.clip(coh, 0, 1): NaN stays NaN
Clip(c) == IF ~c.nan /\ c.n > c.d THEN OneCoherence ELSE c

\* variant: the common extent is the reference's
CommonExtent_Reference(a, b) == a

\* min(slc1.shape[k], slc2.shape[k])
CommonExtent(a, b) == Min(a, b)

\* slc[:h, :w]
Crop(r, h, w) ==
    Array([ i \in 1..Min(h, Height(r)) |->
              Array([ j \in 1..Min(w, Width(r)) |-> r[i][j] ]) ])

\* generate_interferogram of process_real_sar and of real_insar_processor
GenerateInterferogram(slc1_complex, slc2_complex) ==
    LET h == CommonExtent(Height(slc1_complex), Height(slc2_complex))
        w == CommonExtent(Width(slc1_complex), Width(slc2_complex))
        slc1 == Crop(slc1_complex, h, w)
        slc2 == Crop(slc2_complex, h, w)
    IN  IF Height(slc1) # Height(slc2) \/ Width(slc1) # Width(slc2)
        THEN [raised |-> TRUE, phase |-> << >>, coherence |-> << >>]
        ELSE
        LET ifg == Array([ i \in 1..h |-> Array([ j \in 1..w |->
                       Interfere(slc1[i][j], slc2[i][j]) ]) ])
            phase == Array([ i \in 1..h |-> Array([ j \in 1..w |->
                       Angle(ifg[i][j]) ]) ])
            Of(r, F(_)) ==
                Array([ i \in 1..h |-> Array([ j \in 1..w |-> F(r[i][j]) ]) ])
            Re(p) == IF p.k = "fin" THEN p.re ELSE 0
            Im(p) == IF p.k = "fin" THEN p.im ELSE 0
            IsNaN(p) == Indicator(p.k = "nan")
            IsInf(p) == Indicator(p.k = "inf")
            IsHuge(p) == Indicator(p.k = "huge")
            Power(s) == IF s.k = "fin" THEN s.re * s.re + s.im * s.im ELSE 0
            re == Box(Of(ifg, Re))
            im == Box(Of(ifg, Im))
            nans == Box(Of(ifg, IsNaN))
            infs == Box(Of(ifg, IsInf))
            huges == Box(Of(ifg, IsHuge))
            power1 == Box(Of(slc1, Power))
            nans1 == Box(Of(slc1, IsNaN))
            huges1 == Box(Of(slc1, IsHuge))
            power2 == Box(Of(slc2, Power))
            nans2 == Box(Of(slc2, IsNaN))
            huges2 == Box(Of(slc2, IsHuge))
            coh == Array([ i \in 1..h |-> Array([ j \in 1..w |->
                       Clip(Divide(
                           WindowNumerator(re[i][j], im[i][j], nans[i][j],
                                           infs[i][j], huges[i][j]),
                           AddEps(Times(
                               WindowPower(power1[i][j], nans1[i][j], huges1[i][j]),
                               WindowPower(power2[i][j], nans2[i][j], huges2[i][j]))))) ]) ])
        IN  [raised |-> FALSE, phase |-> phase, coherence |-> coh]

(* ------------------------------------------------------------------ *)
(* IfgSpec: one call of generate_interferogram on a reference of one   *)
(* value and a secondary of one value but for its first pixel          *)
(* ------------------------------------------------------------------ *)
GenerateInterferogramCall ==
    /\ call = NoCall
    /\ \E s1 \in IfgShapes, s2 \in IfgShapes :
       \E v1 \in ReferenceValues, v2 \in SampleValues, bg \in SampleValues :
          LET slc1 == Full(s1[1], s1[2], v1)
              slc2 == Spot(s2[1], s2[2], v2, bg)
          IN  /\ call' = [fn |-> "process_real_sar.generate_interferogram",
                          slc1 |-> slc1, slc2 |-> slc2]
              /\ ret' = GenerateInterferogram(slc1, slc2)
    /\ UNCHANGED << pipeVars, configVars, apiVars >>

\* real_insar_processor.generate_interferogram: the same computation
RealGenerateInterferogramCall ==
    /\ call = NoCall
    /\ \E s1 \in IfgShapes, s2 \in IfgShapes :
       \E v1 \in ReferenceValues, v2 \in SampleValues, bg \in SampleValues :
          LET slc1 == Full(s1[1], s1[2], v1)
              slc2 == Spot(s2[1], s2[2], v2, bg)
          IN  /\ call' = [fn |-> "real_insar_processor.generate_interferogram",
                          slc1 |-> slc1, slc2 |-> slc2]
              /\ ret' = GenerateInterferogram(slc1, slc2)
    /\ UNCHANGED << pipeVars, configVars, apiVars >>

IfgNext ==
    \/ GenerateInterferogramCall
    \/ RealGenerateInterferogramCall

IfgSpec == Init /\ [][IfgNext]_vars

IfgCall == call # NoCall /\ "slc1" \in DOMAIN call

\* C27: generate_interferogram returns, for a reference of shape (h1, w1) and
\* a secondary of shape (h2, w2), a phase and a coherence raster that both
\* have the shape (min(h1, h2), min(w1, w2)), and the phase at each pixel is
\* that of the product of the two rasters' samples at that pixel
C27_CommonExtent ==
    IfgCall =>
        LET h == Min(Height(call.slc1), Height(call.slc2))
            w == Min(Width(call.slc1), Width(call.slc2))
        IN  /\ ~ret.raised
            /\ Height(ret.phase) = h /\ Height(ret.coherence) = h
            /\ \A i \in 1..h :
                  /\ Len(ret.phase[i]) = w /\ Len(ret.coherence[i]) = w
                  /\ \A j \in 1..w :
                        ret.phase[i][j]
                            = Angle(Interfere(call.slc1[i][j], call.slc2[i][j]))

\* C27 witness: a 4x2 reference and a 3x4 secondary have given 3x2 rasters
C27_Witness ==
    /\ IfgCall /\ ~ret.raised
    /\ Height(call.slc1) = 4 /\ Width(call.slc1) = 2
    /\ Height(call.slc2) = 3 /\ Width(call.slc2) = 4
    /\ Height(ret.phase) = 3 /\ Width(ret.phase) = 2
    /\ Height(ret.coherence) = 3 /\ Width(ret.coherence) = 2
    /\ ret.phase[1][1] # ret.phase[1][2]

\* every sample of the raster is finite
Finite(r) == \A p \in Pixels(r) : r[p[1]][p[2]].k # "nan"

\* C28: every pixel of a coherence raster that generate_interferogram returns
\* for finite input rasters is a number between 0 and 1
C28_CoherenceInUnitInterval ==
    (IfgCall /\ Finite(call.slc1) /\ Finite(call.slc2) /\ ~ret.raised) =>
        \A p \in Pixels(ret.coherence) :
            LET c == ret.coherence[p[1]][p[2]]
            IN  ~c.nan /\ c.d > 0 /\ 0 <= c.n /\ c.n <= c.d

\* the call in flight has a reference raster that is zero everywhere
ZeroReferenceCall ==
    /\ IfgCall
    /\ \A p \in Pixels(call.slc1) : call.slc1[p[1]][p[2]] = ZeroSample
\* the pixels of an h x w raster under the 5x5 window centred on pixel p,
\* reflected at the borders
Under(p, h, w) ==
    { << Reflect(p[1] + a, h), Reflect(p[2] + b, w) >> : a \in -2..2, b \in -2..2 }
\* some secondary sample under the window of pixel p has a squared magnitude
\* that is not finite
PowerOverflows(p) ==
    \E q \in Under(p, Height(ret.coherence), Width(ret.coherence)) :
        call.slc2[q[1]][q[2]].k # "fin"

\* C29 as stated: with a reference raster that is zero everywhere,
\* generate_interferogram completes without an exception and returns
\* coherence zero at every pixel, for any secondary raster
C29_ZeroReferenceZeroCoherence ==
    ZeroReferenceCall =>
        /\ ~ret.raised
        /\ \A p \in Pixels(ret.coherence) :
              ret.coherence[p[1]][p[2]] = ZeroCoherence

\* C29: with a reference raster that is zero everywhere,
\* generate_interferogram completes without an exception for any secondary
\* raster; the coherence is zero at every pixel whose window holds only
\* secondary samples of finite squared magnitude, and NaN at every other pixel
C29_ZeroReferenceZeroOrUndefined ==
    ZeroReferenceCall =>
        /\ ~ret.raised
        /\ \A p \in Pixels(ret.coherence) :
              ret.coherence[p[1]][p[2]] =
                  IF PowerOverflows(p) THEN NaNCoherence ELSE ZeroCoherence

\* C29 witness: a zero reference and a 4x4 secondary with one huge sample have
\* given a coherence that is NaN near the sample and zero away from it
C29_Witness ==
    /\ ZeroReferenceCall /\ ~ret.raised
    /\ Height(ret.coherence) = 4 /\ Width(ret.coherence) = 4
    /\ call.slc2[1][1] = HugeSample
    /\ ret.coherence[1][1] = NaNCoherence
    /\ ret.coherence[4][4] = ZeroCoherence
    /\ ret.coherence[4][1] = ZeroCoherence

(* ------------------------------------------------------------------ *)
(* Displacement.  A quantity is the exact number                       *)
(* m * 10^e * pi^pi / d; an unwrapped phase of v is v * pi / PI.       *)
(* ------------------------------------------------------------------ *)
\* WAVELENGTH = 0.055465763, in units of 1e-9
WavelengthNano == 55465763

Quantity(m, e, d, pi) == [def |-> TRUE, m |-> m, e |-> e, d |-> d, pi |-> pi]
NaNQuantity == [def |-> FALSE, m |-> 0, e |-> 0, d |-> 1, pi |-> 0]
WAVELENGTH == Quantity(WavelengthNano, -9, 1, 0)

\* q / (4 * np.pi)
OverFourPi(q) == [q EXCEPT !.d = @ * 4, !.pi = @ - 1]

\* q * phase: NaN for a NaN phase
TimesPhase(q, phase) ==
    IF phase.def
    THEN [q EXCEPT !.m = @ * phase.v, !.d = @ * PI, !.pi = @ + 1]
    ELSE NaNQuantity

\* variant: the range change is left in metres
TimesThousand_Metres(q) == q

\* q * 1000: NaN stays NaN
TimesThousand(q) == IF q.def THEN [q EXCEPT !.e = @ + 3] ELSE q

\* process_real_sar.calculate_displacement
CalculateDisplacement(unwrapped) ==
    Array([ i \in 1..Height(unwrapped) |-> Array([ j \in 1..Width(unwrapped) |->
        TimesThousand(TimesPhase(OverFourPi(WAVELENGTH), unwrapped[i][j])) ]) ])

\* real_insar_processor.calculate_los_displacement
CalculateLosDisplacement(unwrapped_phase, wavelength) ==
    LET displacement ==
            Array([ i \in 1..Height(unwrapped_phase) |->
                Array([ j \in 1..Width(unwrapped_phase) |->
                    TimesPhase(OverFourPi(wavelength), unwrapped_phase[i][j]) ]) ])
        displacement_mm ==
            Array([ i \in 1..Height(displacement) |->
                Array([ j \in 1..Width(displacement) |->
                    TimesThousand(displacement[i][j]) ]) ])
    IN  displacement_mm

\* the pixels of the unwrapped rasters drawn as inputs
UnwrappedValues == { NaN, Defined(-9), Defined(0), Defined(1), Defined(16) }

(* ------------------------------------------------------------------ *)
(* DispSpec: one call of a displacement conversion on an unwrapped     *)
(* raster drawn from the input set                                     *)
(* ------------------------------------------------------------------ *)
CalculateDisplacementCall ==
    /\ call = NoCall
    /\ \E s \in Shapes : \E unwrapped \in Rasters(s[1], s[2], UnwrappedValues) :
          /\ call' = [fn |-> "calculate_displacement", unwrapped |-> unwrapped]
          /\ ret' = Returned(CalculateDisplacement(unwrapped))
    /\ UNCHANGED << pipeVars, configVars, apiVars >>

\* calculate_los_displacement(unwrapped): wavelength takes its default
CalculateLosDisplacementCall ==
    /\ call = NoCall
    /\ \E s \in Shapes : \E unwrapped \in Rasters(s[1], s[2], UnwrappedValues) :
          /\ call' = [fn |-> "calculate_los_displacement", unwrapped |-> unwrapped]
          /\ ret' = Returned(CalculateLosDisplacement(unwrapped, WAVELENGTH))
    /\ UNCHANGED << pipeVars, configVars, apiVars >>

DispNext ==
    \/ CalculateDisplacementCall
    \/ CalculateLosDisplacementCall

DispSpec == Init /\ [][DispNext]_vars

DispCall == call # NoCall /\ "unwrapped" \in DOMAIN call

\* C30: the displacement raster has the shape of the unwrapped raster; at a
\* defined pixel of phase v * pi / PI it holds
\* (wavelength / (4 * pi)) * phase * 1000 = 55465763 * v * 10^-6 / (4 * PI)
\* millimetres, and at a NaN pixel it holds NaN
C30_DisplacementFormula ==
    DispCall =>
        /\ ~ret.raised
        /\ Height(ret.out) = Height(call.unwrapped)
        /\ \A i \in 1..Height(call.unwrapped) :
              /\ Len(ret.out[i]) = Width(call.unwrapped)
              /\ \A j \in 1..Width(call.unwrapped) :
                    LET phase == call.unwrapped[i][j]
                        mm == ret.out[i][j]
                    IN  IF phase.def
                        THEN /\ mm.def
                             /\ mm.m = 55465763 * phase.v
                             /\ mm.e = -9 + 3
                             /\ mm.d = 4 * PI
                             /\ mm.pi = 0
                        ELSE ~mm.def

\* C30 witness: calculate_los_displacement has converted a raster with a NaN
\* pixel and a pixel of phase 4*pi, which is 27.7 mm
C30_Witness ==
    /\ DispCall /\ ~ret.raised
    /\ call.fn = "calculate_los_displacement"
    /\ call.unwrapped = << << NaN, Defined(16) >> >>
    /\ ~ret.out[1][1].def
    /\ ret.out[1][2] = Quantity(887452208, -6, 16, 0)

(* ------------------------------------------------------------------ *)
(* Prerequisites of the downstream steps                               *)
(* ------------------------------------------------------------------ *)
\* C33: a downstream step computes only when its prerequisite step has status
\* COMPLETED on this processor (initialize_stack for compute_alignment,
\* compute_geocoding and compute_interferogram; compute_interferogram for
\* phase_unwrapping; phase_unwrapping for compute_displacement); otherwise it
\* ends FAILED with the "call ... first" error
C33_ComputesOnlyAfterCompleted ==
    LET Done(s) == s \in DOMAIN results /\ results[s].status = COMPLETED
    IN  pc = "step_body" /\ fate # "fail_prereq" =>
          /\ cur \in { COMPUTE_ALIGNMENT, COMPUTE_GEOCODING, COMPUTE_INTERFEROGRAM }
                => Done(INITIALIZE_STACK)
          /\ cur = PHASE_UNWRAPPING => Done(COMPUTE_INTERFEROGRAM)
          /\ cur = COMPUTE_DISPLACEMENT => Done(PHASE_UNWRAPPING)

C35_FlagMonotone ==
    /\ [][ cancelled => cancelled' ]_vars
    /\ [][ inRun' /\ lateRun' => results' = results /\ keyOrder' = keyOrder ]_vars
    /\ [] (inRun /\ lateRun =>
             /\ started = << >>
             /\ pc \in { "run_check", "run_returned" })

\* C35 witness: run() of a non-empty list, begun with the flag set on a
\* processor that holds results, has returned
C35_Witness ==
    /\ inRun /\ lateRun
    /\ pc = "run_returned"
    /\ runSteps # << >>
    /\ DOMAIN results # {}

(* ------------------------------------------------------------------ *)
(* The registry seen through the HTTP handlers                         *)
(*                                                                     *)
(* The handlers are coroutines without an await between their reads    *)
(* and writes of the registry, so each runs as one step of the event   *)
(* loop; the worker is a thread and interleaves with them. One task id *)
(* is followed, and one worker thread at a time.                       *)
(* ------------------------------------------------------------------ *)
\* variant: start_processing does not look the task id up
TaskExists_Never(t) == FALSE

\* `request.task_id in processing_tasks`
TaskExists(t) == t # NoTask

\* the worker thread is between its start and its end
WorkerAlive == wpc \notin { "none", "done", "died" }

\* InSARProcessor(config): the processor start_processing builds for the entry
NewProcessor ==
    /\ cancelled' = FALSE
    /\ results' = << >>
    /\ keyOrder' = << >>
    /\ sbas' = FALSE
    /\ intf' = FALSE
    /\ unwrap' = FALSE
    /\ los_disp' = FALSE
    /\ callbacks' = << >>
    /\ logCallbacks' = << >>
    /\ seen' = << >>
    /\ seenLog' = << >>
    /\ invoked' = << >>
    /\ emitted' = << >>
    /\ emittedLog' = << >>
    /\ pc' = "idle"
    /\ inRun' = FALSE
    /\ runSteps' = << >>
    /\ idx' = 1
    /\ cur' = None
    /\ fate' = None
    /\ polled' = NoSnapshot
    /\ runArg' = NoArg
    /\ started' = << >>
    /\ freshRun' = FALSE
    /\ lateRun' = FALSE
    /\ lateStarts' = 0
    /\ cancelMark' = -1

\* start_processing: 400 when the task id is in the registry; otherwise the
\* processor and the entry are created and the worker thread is started
StartProcessingCall ==
    /\ cpc = "idle"
    /\ IF TaskExists(task)
       THEN /\ resp' = [ op |-> "start_processing", code |-> 400 ]
            /\ UNCHANGED << procVars, noteVars, threadVars, svcVars, histVars,
                            workers >>
       ELSE /\ ~WorkerAlive
            /\ NewProcessor
            /\ task' = NewTask
            /\ wpc' = "spawned"
            /\ workers' = workers + 1
            /\ resp' = [ op |-> "start_processing", code |-> 200 ]
            /\ UNCHANGED << cpc, calls, cancelCalls >>
    /\ UNCHANGED << configVars, numVars >>

\* get_task_status on a registry entry: the counts are taken from the snapshot
\* the worker stored in task["results"]; while that is None the response model,
\* whose results field is a required Dict, cannot be built
GetTaskStatus(t) ==
    IF t = NoTask
    THEN [ op |-> "get_task_status", code |-> 404 ]
    ELSE IF t.results = NoSnapshot
    THEN [ op |-> "get_task_status", code |-> 500 ]
    ELSE [ op |-> "get_task_status", code |-> 200, status |-> t.status,
           completed_steps |-> CountStatus(t.results.results, COMPLETED),
           failed_steps |-> CountStatus(t.results.results, FAILED) ]

\* GET /tasks/{task_id}
GetTaskStatusCall ==
    /\ cpc = "idle"
    /\ resp' = GetTaskStatus(task)
    /\ UNCHANGED << pipeVars, configVars, numVars, workers >>

\* delete_task: 404 for an unknown id, 400 when the status is "running",
\* otherwise `del processing_tasks[task_id]`
DeleteTask ==
    /\ cpc = "idle"
    /\ IF task = NoTask
       THEN /\ resp' = [ op |-> "delete_task", code |-> 404 ]
            /\ UNCHANGED << task, workers >>
       ELSE IF task.status = "running"
       THEN /\ resp' = [ op |-> "delete_task", code |-> 400 ]
            /\ UNCHANGED << task, workers >>
       ELSE /\ resp' = [ op |-> "delete_task", code |-> 200 ]
            /\ task' = NoTask
            /\ workers' = 0
    /\ UNCHANGED << procVars, noteVars, threadVars, wpc, cpc, histVars >>
    /\ UNCHANGED << configVars, numVars >>

\* run_processing_task writes to processing_tasks[task_id] after the entry was
\* deleted: KeyError, and the except clause raises KeyError again at its own
\* write, which ends the thread
WorkerKeyError ==
    /\ task = NoTask
    /\ \/ wpc = "spawned"
       \/ wpc = "in_run" /\ pc \in { "run_returned", "run_raised" }
       \/ wpc = "collect"
    /\ wpc' = "died"
    /\ UNCHANGED << procVars, noteVars, threadVars, task, cpc, histVars >>
    /\ UNCHANGED << configVars, numVars, apiVars >>

RegNext ==
    \/ StartProcessingCall
    \/ GetTaskStatusCall
    \/ DeleteTask
    \/ WorkerSetRunning
    \/ WorkerEnterRun
    \/ RunCheck
    \/ StepStart
    \/ StepCheck
    \/ StepBody
    \/ WorkerCompleted
    \/ WorkerCollect
    \/ WorkerFailed
    \/ WorkerKeyError
    \/ CancelTaskBegin
    \/ CancelTaskEnd

RegSpec == Init /\ [][RegNext]_vars

\* C31: at any time during or after a run (running, completed, failed or
\* cancelled) get_task_status succeeds and returns completed_steps and
\* failed_steps equal to the numbers of COMPLETED and FAILED step results the
\* task's processor holds at that moment
C31_StatusMirrorsProcessor ==
    [][ (GetTaskStatusCall /\ task # NoTask /\ wpc \in { "in_run", "collect", "done" })
          => /\ resp'.code = 200
             /\ resp'.completed_steps = CountStatus(results, COMPLETED)
             /\ resp'.failed_steps = CountStatus(results, FAILED) ]_vars

\* C34: delete_task removes the entry only when the worker thread has
\* finished: a delete request that arrives while the worker is still executing
\* is rejected with an error and leaves the registry unchanged, so the worker
\* never finds its own entry missing
C34_DeleteOnlyAfterWorker ==
    /\ [][ (DeleteTask /\ task # NoTask /\ WorkerAlive)
             => (resp'.code = 400 /\ task' = task) ]_vars
    /\ [] (wpc # "died")

\* C37: start_processing with a task id that is in the registry is rejected
\* with an error, starts no worker and leaves the entry and its processor as
\* they were; at most one worker is ever started per registry entry
C37_DuplicateRejected ==
    /\ [][ (StartProcessingCall /\ task # NoTask)
             => /\ resp'.code = 400
                /\ UNCHANGED << task, wpc, workers, procVars, threadVars >> ]_vars
    /\ [] (workers <= 1 /\ (task # NoTask => workers = 1))

\* C37 witness: a second start_processing for the id was answered 400 while
\* the worker of the first was inside run() with results recorded
C37_Witness ==
    /\ resp = [ op |-> "start_processing", code |-> 400 ]
    /\ task # NoTask /\ task.status = "running"
    /\ wpc = "in_run"
    /\ DOMAIN results # {}
    /\ workers = 1

(* ------------------------------------------------------------------ *)
(* The worker thread under fair scheduling                             *)
(* ------------------------------------------------------------------ *)
\* the steps of the thread that executes run_processing_task
WorkerNext ==
    \/ WorkerSetRunning
    \/ WorkerEnterRun
    \/ RunCheck
    \/ StepStart
    \/ StepCheck
    \/ StepBody
    \/ WorkerCompleted
    \/ WorkerCollect
    \/ WorkerFailed

\* SvcSpec with a worker thread that is not starved and steps that terminate
SvcLiveSpec == SvcSpec /\ WF_vars(WorkerNext)

\* the statuses a task rests in
RestStatuses == { "completed", "failed", "cancelled" }

\* C36: every task accepted by start_processing eventually leaves 'pending'
\* and 'running' and rests in 'completed', 'failed' or 'cancelled', whatever
\* cancel requests are interleaved, when every step terminates and the worker
\* thread is scheduled fairly
C36_TaskComesToRest ==
    [] (task # NoTask => <>[] (task.status \in RestStatuses))

\* C36 witness: a cancel request was interleaved with the run, and the task
\* rests 'completed' with the worker thread ended
C36_Witness ==
    /\ task # NoTask /\ task.status = "completed"
    /\ wpc = "done" /\ cpc = "idle"
    /\ cancelCalls >= 1
    /\ cancelMark >= 0

(* ------------------------------------------------------------------ *)
(* The log of a task and get_task_logs                                 *)
(* ------------------------------------------------------------------ *)
\* the longest log drawn
MaxLogs == 3

\* messages the processor logs
LogMessages == { "Processing cancelled by user", "Processing cancelled",
                 "Processing Complete" }

\* run_processing_task.on_log: one entry is appended to the task's logs; the
\* timestamp is the reading of a clock that moves on with every entry
AppendLog(logs, message) ==
    Append(logs, [ timestamp |-> Len(logs) + 1, message |-> message ])

\* the logs of a task after on_log received the messages in this order
RECURSIVE TaskLogs(_)
TaskLogs(msgs) ==
    IF msgs = << >>
    THEN << >>
    ELSE AppendLog(TaskLogs(SubSeq(msgs, 1, Len(msgs) - 1)), msgs[Len(msgs)])

\* s[start:] of a Python list: a negative start counts from the end, and both
\* are clamped to the list
SliceFrom(s, start) ==
    LET n == Len(s)
        lo == IF start < 0
              THEN (IF n + start < 0 THEN 0 ELSE n + start)
              ELSE Min(start, n)
    IN  SubSeq(s, lo + 1, n)

\* get_task_logs: {"total_logs": len(logs), "logs": logs[-limit:]}
GetTaskLogs(logs, limit) ==
    [ total_logs |-> Len(logs), logs |-> SliceFrom(logs, 0 - limit) ]

\* the message sequences of at most MaxLogs entries
MessageLists ==
    UNION { [ 1..n -> LogMessages ] : n \in 0..MaxLogs }

\* GET /tasks/{task_id}/logs?limit=n on a task whose worker logged msgs
GetTaskLogsCall ==
    /\ call = NoCall
    /\ \E msgs \in MessageLists, limit \in 0..(MaxLogs + 1) :
          /\ call' = [ fn |-> "get_task_logs", logs |-> TaskLogs(msgs),
                       limit |-> limit ]
          /\ ret' = GetTaskLogs(TaskLogs(msgs), limit)
    /\ UNCHANGED << pipeVars, configVars, apiVars >>

LogsNext == GetTaskLogsCall

LogsSpec == Init /\ [][LogsNext]_vars

\* C38: for every limit n >= 0 get_task_logs returns the most recent
\* min(n, total) entries in the order they were emitted, reports total_logs as
\* the full number of entries, and never returns more than n entries
C38_MostRecentLogs ==
    call.fn = "get_task_logs" =>
        LET total == Len(call.logs)
            k == Min(call.limit, total)
        IN  /\ ret.total_logs = total
            /\ ret.logs = SubSeq(call.logs, total - k + 1, total)
            /\ Len(ret.logs) <= call.limit

(* ------------------------------------------------------------------ *)
(* sar_algorithms.PhaseUnwrapper.unwrap_2d_mcf                         *)
(*                                                                     *)
(* np.gradient halves the central differences; the values of the       *)
(* gradient and of the output are kept doubled, in units of pi/8.      *)
(* ------------------------------------------------------------------ *)
\* dy of `dy, dx = np.gradient(wrapped_phase)`, doubled: one-sided differences
\* at the first and the last row, central differences between them
GradientAxis0(phase) ==
    LET h == Height(phase)
    IN  Array([ i \in 1..h |-> Array([ j \in 1..Width(phase) |->
            IF i = 1 THEN 2 * (phase[2][j] - phase[1][j])
            ELSE IF i = h THEN 2 * (phase[h][j] - phase[h - 1][j])
            ELSE phase[i + 1][j] - phase[i - 1][j] ]) ])

\* unwrap_2d_mcf, output doubled: np.gradient raises ValueError for an axis
\* shorter than 2; the loops start at row 1 and column 1 of a zero array and
\* add dy[i-1, j] to the pixel above
Unwrap2dMcf(phase) ==
    IF Height(phase) < 2 \/ Width(phase) < 2
    THEN Raised
    ELSE LET dy == GradientAxis0(phase)
             column(j) == Array([ k \in 1..Height(phase) |-> dy[k][j] ])
         IN  Returned(Array([ i \in 1..Height(phase) |->
                 Array([ j \in 1..Width(phase) |->
                     IF i = 1 \/ j = 1 THEN 0 ELSE SumTo(column(j), i - 1) ]) ]))

\* await PhaseUnwrapper.unwrap_2d_mcf(wrapped) on the wrapped form of a raster
Unwrap2dMcfCall ==
    /\ call = NoCall
    /\ \E orig \in Originals :
          LET phase == WrapRaster(orig)
          IN  /\ call' = [fn |-> "unwrap_2d_mcf", orig |-> orig, phase |-> phase]
              /\ ret' = Unwrap2dMcf(phase)
    /\ UNCHANGED << pipeVars, configVars, apiVars >>

McfNext == Unwrap2dMcfCall

McfSpec == Init /\ [][McfNext]_vars

\* a doubled value modulo 2*pi, in (-pi, pi]
WrapDoubled(v) == ((v + TWO_PI - 1) % (2 * TWO_PI)) - TWO_PI + 1

\* C39: for a wrapped input of at least two rows and two columns whose true
\* phase is continuous, unwrap_2d_mcf integrates re-wrapped gradients: no pair
\* of adjacent output pixels, in any row or column, row 0 and column 0
\* included, differs by a 2*pi wrap jump, and the output re-wrapped equals the
\* input up to one global constant
C39_McfContinuous ==
    ( /\ call # NoCall
      /\ Continuous(call.orig)
      /\ Height(call.orig) >= 2 /\ Width(call.orig) >= 2 ) =>
        /\ ~ret.raised
        /\ \A i \in 1..(Height(call.orig) - 1), j \in 1..Width(call.orig) :
              Abs(ret.out[i + 1][j] - ret.out[i][j]) < TWO_PI
        /\ \A i \in 1..Height(call.orig), j \in 1..(Width(call.orig) - 1) :
              Abs(ret.out[i][j + 1] - ret.out[i][j]) < TWO_PI
        /\ \E c \in 0..(2 * TWO_PI - 1) :
              \A p \in Pixels(call.orig) :
                  WrapDoubled(ret.out[p[1]][p[2]] + c) = 2 * call.phase[p[1]][p[2]]

====
